---- MODULE Spec2Model ----
(***************************************************************************)
(* Room hub of the flixers backend (src/backend/server.js, lines 1-745):   *)
(* the in-memory room registry, the WebSocket connection handler, the      *)
(* message router, the presence broadcaster, the heartbeat and the         *)
(* empty-room deletion timers.                                             *)
(*                                                                         *)
(* Every JavaScript callback runs to completion on the single event loop,  *)
(* so each callback is one action.  The mirror is absent in this           *)
(* specification: `redis` is null (server.js:10-18).                       *)
(***************************************************************************)
EXTENDS Integers, FiniteSets, Sequences, TLC

VARIABLES
    rooms,              \* server.js:52   roomId -> room record
    timers,             \* pending setTimeout handles -> roomId captured by the callback
    readyState,         \* socket.readyState of every connection slot
    destroyed,          \* sockets on which terminate() destroyed the TCP stream
    session,            \* server.js:271  the verified claims held by the connection closure
    client,             \* server.js:280  the client object of the connection closure
    isAlive,            \* server.js:284  socket.isAlive
    lastActivity,       \* server.js:285  socket.lastActivity
    now,                \* Date.now()
    requireEncryption,  \* process.env.REQUIRE_ENCRYPTION === "true"
    isConnected,        \* redis.js:25   the mirror's connection flag
    mirror,             \* the hashes the mirror holds: roomId -> fields and expiry
    inflight,           \* commands sent to the mirror whose reply has not arrived, oldest first
    journal,            \* tests/ws-regression.js:88-119  the members the harness saw close
    currentRoom,        \* content-script.js:4330  the room the extension has selected
    extSession,         \* content-script.js:4334  whether session holds a token
    connectionStatus,   \* content-script.js:4354
    ws,                 \* content-script.js:4329  the WebSocket the extension refers to
    sockets,            \* the WebSocket objects the extension created and their readyState
    retryTimer,         \* content-script.js:4333  whether the retry timer is armed
    suspended,          \* the extension's async functions waiting at an await
    flushDue,           \* whether a timer that will call flushMessageQueue is pending
    messageQueue,       \* content-script.js:4361
    storage,            \* chrome.storage.local: the persisted queue of every room
    peerPublicKeys,     \* content-script.js:4337  whether a peer key is held
    extEncryptionRequired, \* content-script.js:4336
    toSend,             \* content-script.js:5809  the entries the flush in progress took
    flushTimers,        \* the payloads of a flush whose timer has not fired, in order
    sending,            \* the payloads inside sendEncryptedPayload
    written,            \* the chat texts passed to ws.send
    last                \* the callback that ran last: its input and the frames it sent

\* the variables of the server process and its harness
serverVars == <<rooms, timers, readyState, destroyed, session, client, isAlive, lastActivity,
                now, requireEncryption, isConnected, mirror, inflight, journal>>

\* the variables of the extension's background worker
extVars == <<currentRoom, extSession, connectionStatus, ws, sockets, retryTimer, suspended,
             flushDue, messageQueue, storage, peerPublicKeys, extEncryptionRequired,
             toSend, flushTimers, sending, written>>

vars == <<serverVars, extVars, last>>

(***************************************************************************)
(* Bounds                                                                  *)
(***************************************************************************)
MaxConns == 2
MaxRooms == 1
MaxTicks == 3
MaxInflight == 1
MaxSockets == 1
MaxSuspended == 1
MaxChats == 2

Conns == 1..MaxConns
Sockets == 1..MaxSockets
Texts == 1..MaxChats
RoomIds == 1..MaxRooms

(***************************************************************************)
(* Program constants                                                       *)
(***************************************************************************)
PING_INTERVAL == 15000
MAX_QUEUE_SIZE == 100
ACTIVITY_TIMEOUT == 7200000

\* Date.now() when the server starts: later than one activity timeout after the epoch.
StartTime == ACTIVITY_TIMEOUT + PING_INTERVAL

(***************************************************************************)
(* JavaScript values                                                       *)
(***************************************************************************)
Undef == [t |-> "undefined"]
Null == [t |-> "null"]
Str(s) == [t |-> "string", v |-> s]
Num(n) == [t |-> "number", v |-> n]
Bool(b) == [t |-> "boolean", v |-> b]
Obj(o) == [t |-> "object", v |-> o]

\* obj.key : undefined when the key is missing
Field(obj, key) == IF key \in DOMAIN obj THEN obj[key] ELSE Undef

\* strings that String.prototype.trim() reduces to ""
WhitespaceOnly == {"", " "}

Falsy(x) ==
    \/ x.t \in {"undefined", "null"}
    \/ x.t = "string" /\ x.v = ""
    \/ x.t = "number" /\ x.v = 0
    \/ x.t = "boolean" /\ x.v = FALSE

\* a || b
OrElse(a, b) == IF Falsy(a) THEN b ELSE a

\* JSON.parse(JSON.stringify(obj)): keys whose value is undefined are dropped
Stringify(obj) ==
    [k \in {key \in DOMAIN obj : obj[key] # Undef} |-> obj[k]]

\* faulty variant: any string passes, blank or not
isNonEmptyString_anyString(value) == value.t = "string"

isNonEmptyString(value) ==
    value.t = "string" /\ value.v \notin WhitespaceOnly

\* faulty variant: only a boolean is taken, the strings fall back
coerceBoolean_booleansOnly(value, fallback) ==
    IF value.t = "boolean" THEN value.v ELSE fallback

coerceBoolean(value, fallback) ==
    IF value.t = "boolean" THEN value.v
    ELSE IF value.t = "string" /\ value.v \in {"true", "TRUE", "True"} THEN TRUE
    ELSE IF value.t = "string" /\ value.v \in {"false", "FALSE", "False"} THEN FALSE
    ELSE fallback

defaultEncryptionRequired == requireEncryption

VideoUrl == "https://www.netflix.com/watch/81234567"

extractTitleId(url) ==
    IF url = "" THEN ""
    ELSE IF url = VideoUrl THEN "81234567"
    ELSE ""

(***************************************************************************)
(* Session tokens (server.js:673-697)                                      *)
(***************************************************************************)
Alice == [sub |-> Str("alice-sub"), name |-> Str("Alice"), picture |-> Str("https://img.example/alice.png")]
\* a profile without a name claim (issueSessionToken copies profile.name as it is)
Anon == [sub |-> Str("anon-sub")]

Sessions == {Alice, Anon}

Jwt(claims, signed) == [t |-> "jwt", claims |-> claims, signed |-> signed]

\* well-signed tokens, a tampered token, and no token at all
Tokens == {Jwt(s, TRUE) : s \in Sessions} \cup {Jwt(Alice, FALSE)} \cup {Null}

\* the tokens of control-plane requests: one that verifies and one that does not
BearerTokens == {Jwt(Alice, TRUE), Jwt(Alice, FALSE)}

\* faulty variant: the claims are decoded but the signature is not checked
verifySessionToken_trustsUnsigned(token) ==
    IF token.t = "jwt" THEN token.claims ELSE Null

verifySessionToken(token) ==
    IF token.t = "jwt" /\ token.signed THEN token.claims ELSE Null

(***************************************************************************)
(* Room registry (server.js:52, 397-433)                                   *)
(***************************************************************************)
NoTimer == 0
NoRoom == 0
NoConn == 0
NoSocket == 0

CONNECTING == "CONNECTING"
OPEN == "OPEN"
CLOSING == "CLOSING"
CLOSED == "CLOSED"

NoOpts == [x \in {} |-> Undef]

Min(S) == CHOOSE n \in S : \A m \in S : n <= m

\* the handle setTimeout returns: distinct from every handle still pending or still stored
FreshTimer(rms, tms) ==
    LET used == DOMAIN tms \cup {rms[r].deletionTimer : r \in DOMAIN rms}
    IN  Min((1..(Cardinality(used) + 1)) \ used)

\* the identity of the object literal that rooms.set stores
FreshRec(rms) ==
    LET used == {rms[r].rec : r \in DOMAIN rms}
    IN  Min((1..(Cardinality(used) + 1)) \ used)

\* faulty variant: the handle is forgotten but the timeout stays scheduled
clearTimeout_noop(tms, handle) == tms

clearTimeout(tms, handle) ==
    [h \in DOMAIN tms \ {handle} |-> tms[h]]

setTimeout(tms, handle, roomId) ==
    [h \in DOMAIN tms \cup {handle} |-> IF h = handle THEN roomId ELSE tms[h]]

NewRoom(rms, opts) ==
    [clients |-> {},
     encryptionRequired |-> coerceBoolean(Field(opts, "encryptionRequired"), defaultEncryptionRequired),
     videoUrl |-> OrElse(Field(opts, "videoUrl"), Str("")),
     titleId |-> OrElse(Field(opts, "titleId"), Str("")),
     initialTime |-> OrElse(Field(opts, "initialTime"), Num(0)),
     deletionTimer |-> NoTimer,
     rec |-> FreshRec(rms)]

\* faulty variant: an existing room starts over with an empty member set
UpdatedRoom_resetsClients(room, opts) ==
    [room EXCEPT !.deletionTimer = NoTimer, !.clients = {}]

\* faulty variant: a given offset is added to the stored one
UpdatedRoom_addsOffset(room, opts) ==
    [room EXCEPT
       !.deletionTimer = NoTimer,
       !.initialTime = IF Field(opts, "initialTime") # Undef
                       THEN Num(@.v + Field(opts, "initialTime").v)
                       ELSE @]

UpdatedRoom(room, opts) ==
    [room EXCEPT
       !.deletionTimer = NoTimer,
       !.encryptionRequired =
           IF Field(opts, "encryptionRequired") # Undef
           THEN coerceBoolean(Field(opts, "encryptionRequired"), room.encryptionRequired)
           ELSE @,
       !.videoUrl = IF Field(opts, "videoUrl") # Undef THEN Field(opts, "videoUrl") ELSE @,
       !.titleId = IF Field(opts, "titleId") # Undef THEN Field(opts, "titleId") ELSE @,
       !.initialTime = IF Field(opts, "initialTime") # Undef THEN Field(opts, "initialTime") ELSE @]

\* faulty variant: an existing room keeps its pending deletion timer
ensureRoom_keepsTimer(rms, tms, roomId, opts) ==
    IF roomId \notin DOMAIN rms
    THEN [rooms |-> [r \in DOMAIN rms \cup {roomId} |->
                        IF r = roomId THEN NewRoom(rms, opts) ELSE rms[r]],
          timers |-> tms]
    ELSE [rooms |-> [rms EXCEPT ![roomId] =
                        [UpdatedRoom(rms[roomId], opts) EXCEPT
                            !.deletionTimer = rms[roomId].deletionTimer]],
          timers |-> tms]

\* ensureRoom(roomId, opts): the registry and the pending timers after the call
ensureRoom(rms, tms, roomId, opts) ==
    IF roomId \notin DOMAIN rms
    THEN [rooms |-> [r \in DOMAIN rms \cup {roomId} |->
                        IF r = roomId THEN NewRoom(rms, opts) ELSE rms[r]],
          timers |-> tms]
    ELSE [rooms |-> [rms EXCEPT ![roomId] = UpdatedRoom(rms[roomId], opts)],
          timers |-> IF rms[roomId].deletionTimer # NoTimer
                     THEN clearTimeout(tms, rms[roomId].deletionTimer)
                     ELSE tms]

\* faulty variant: the policy reads the process-wide default instead of the room's flag
isEncryptionRequired_ignoresRoom(rms, roomId) == defaultEncryptionRequired

isEncryptionRequired(rms, roomId) ==
    IF roomId \in DOMAIN rms THEN rms[roomId].encryptionRequired
    ELSE defaultEncryptionRequired

(***************************************************************************)
(* Fan-out (server.js:593-632)                                             *)
(***************************************************************************)
\* faulty variant: the skipped client is not skipped
broadcast_noSkip(rms, rs, roomId, message, skipClient) ==
    IF roomId \notin DOMAIN rms THEN {}
    ELSE {[to |-> member, payload |-> Stringify(message)] :
            member \in {m \in rms[roomId].clients : rs[m] = OPEN}}

\* faulty variant: the loop over the members stops after the first send
broadcast_stopsAfterFirst(rms, rs, roomId, message, skipClient) ==
    IF roomId \notin DOMAIN rms THEN {}
    ELSE LET receivers == {m \in rms[roomId].clients :
                             /\ ~(skipClient # NoConn /\ m = skipClient)
                             /\ rs[m] = OPEN}
         IN  {[to |-> member, payload |-> Stringify(message)] :
                 member \in IF receivers = {} THEN {} ELSE {Min(receivers)}}

\* the frames socket.send puts on the wire: one per open member, the skipped one excepted
\* faulty variant: the members of every room are served
broadcast_everyRoom(rms, rs, roomId, message, skipClient) ==
    {[to |-> member, payload |-> Stringify(message)] :
       member \in {m \in UNION {rms[r].clients : r \in DOMAIN rms} :
                     /\ ~(skipClient # NoConn /\ m = skipClient)
                     /\ rs[m] = OPEN}}

broadcast(rms, rs, roomId, message, skipClient) ==
    IF roomId \notin DOMAIN rms THEN {}
    ELSE {[to |-> member, payload |-> Stringify(message)] :
            member \in {m \in rms[roomId].clients :
                          /\ ~(skipClient # NoConn /\ m = skipClient)
                          /\ rs[m] = OPEN}}

\* faulty variant: one entry per user, whatever the number of its connections
Participants_perUser(rms, cl, roomId) ==
    [c \in {m \in rms[roomId].clients :
              \A o \in rms[roomId].clients : cl[o].sub = cl[m].sub => m <= o} |->
        [id |-> cl[c].sub, name |-> cl[c].name, picture |-> OrElse(cl[c].picture, Null)]]

\* the array Array.from(room.clients).map(...) as a function of the handle
Participants(rms, cl, roomId) ==
    [c \in rms[roomId].clients |->
        [id |-> cl[c].sub, name |-> cl[c].name, picture |-> OrElse(cl[c].picture, Null)]]

PresenceMessage(rms, cl, roomId) ==
    LET participants == Participants(rms, cl, roomId)
    IN  [type |-> Str("presence"),
         participants |-> Obj(participants),
         users |-> Obj([c \in DOMAIN participants |-> participants[c].name]),
         avatars |-> Obj({[id |-> participants[c].id, picture |-> participants[c].picture] :
                            c \in {m \in DOMAIN participants : ~Falsy(participants[m].picture)}}),
         encryptionRequired |-> Bool(rms[roomId].encryptionRequired)]

\* faulty variant: the membership change is not announced
broadcastPresence_forgotten(rms, rs, cl, roomId) == {}

broadcastPresence(rms, rs, cl, roomId) ==
    IF roomId \notin DOMAIN rms THEN {}
    ELSE broadcast(rms, rs, roomId, PresenceMessage(rms, cl, roomId), NoConn)

(***************************************************************************)
(* Metadata mirror (redis.js:25-35, 154-207)                               *)
(***************************************************************************)
\* the string the redis client writes for a field value
RedisString(x) ==
    IF x.t = "string" THEN x.v
    ELSE IF x.t = "boolean" THEN (IF x.v THEN "true" ELSE "false")
    ELSE IF x.t = "number" THEN ToString(x.v)
    ELSE ""

NaN == [t |-> "NaN"]

\* the numbers whose decimal form can be stored in a hash here
KnownNumbers == {0, 42} \cup {StartTime + k * PING_INTERVAL : k \in 0..MaxTicks}

\* parseFloat(str) / parseInt(str, 10) for a field of a hash
ParseNumber(x) ==
    IF x.t = "string" /\ \E n \in KnownNumbers : ToString(n) = x.v
    THEN Num(CHOOSE n \in KnownNumbers : ToString(n) = x.v)
    ELSE NaN

EmptyHash == [k \in {} |-> ""]

\* data.key of the object HGETALL returns
HashField(data, key) == IF key \in DOMAIN data THEN Str(data[key]) ELSE Undef

\* the object redis.createRoom stores (redis.js:156-162)
createRoomData(roomId, options, t) ==
    [id |-> Num(roomId),
     encryptionRequired |-> OrElse(Field(options, "encryptionRequired"), Bool(FALSE)),
     videoUrl |-> OrElse(Field(options, "videoUrl"), Str("")),
     videoTime |-> OrElse(Field(options, "videoTime"), Num(0)),
     createdAt |-> Num(t)]

\* the object redis.updateRoomVideoState stores (redis.js:180)
videoStateData(videoUrl, videoTime) ==
    [videoUrl |-> OrElse(videoUrl, Str("")), videoTime |-> OrElse(videoTime, Num(0))]

\* HSET key field value ...: the given fields are written, the others and the expiry stay
hset(mir, key, fields) ==
    LET old == IF key \in DOMAIN mir THEN mir[key] ELSE [hash |-> EmptyHash, ttl |-> FALSE]
        hash == [k \in DOMAIN old.hash \cup DOMAIN fields |->
                    IF k \in DOMAIN fields THEN RedisString(fields[k]) ELSE old.hash[k]]
    IN  [r \in DOMAIN mir \cup {key} |-> IF r = key THEN [hash |-> hash, ttl |-> old.ttl] ELSE mir[r]]

\* EXPIRE key CACHE_TTL.ROOM
expire(mir, key) ==
    IF key \in DOMAIN mir THEN [mir EXCEPT ![key].ttl = TRUE] ELSE mir

\* what redis.getRoom makes of the reply to HGETALL (redis.js:191-202)
getRoom(mir, roomId) ==
    IF roomId \notin DOMAIN mir THEN Null
    ELSE LET data == mir[roomId].hash
             videoTime == ParseNumber(HashField(data, "videoTime"))
         IN  [id |-> HashField(data, "id"),
              encryptionRequired |-> Bool(HashField(data, "encryptionRequired") = Str("true")),
              videoUrl |-> OrElse(HashField(data, "videoUrl"), Str("")),
              videoTime |-> IF videoTime = NaN THEN Num(0) ELSE videoTime,
              createdAt |-> ParseNumber(HashField(data, "createdAt"))]

\* a command on its way to the mirror: what it writes or reads, the client function
\* that awaits it, and the request that function was called for
Command(cmd, call, key, fields, req) ==
    [cmd |-> cmd, call |-> call, key |-> key, fields |-> fields, req |-> req]

(***************************************************************************)
(* Inbound frames                                                          *)
(***************************************************************************)
\* raw text that JSON.parse rejects
Unparseable == [t |-> "unparseable"]

Frame(fields) == Obj(fields)

\* identity fields a client may put into a frame
Spoof == [from |-> Str("Mallory"), fromId |-> Str("mallory-sub")]

PlainFrames ==
    { Frame([type |-> Str("state"), payload |-> Obj("t=12")]),
      Frame([type |-> Str("chat"), text |-> Str("hi")]),
      Frame([type |-> Str("chat"), text |-> Str("hi"), ts |-> Num(123), avatar |-> Str("https://img.example/m.png")] @@ Spoof),
      Frame([type |-> Str("typing"), active |-> Bool(TRUE)] @@ Spoof) }

ControlFrames ==
    { Frame([type |-> Str("system"), text |-> Str("joined")]),
      Frame([type |-> Str("episode-changed"), url |-> Str(VideoUrl), ts |-> Num(123), seq |-> Num(2), title |-> Str("E2")] @@ Spoof),
      Frame([type |-> Str("episode-changed"), url |-> Str(" ")]),
      Frame([type |-> Str("sync-request")] @@ Spoof),
      Frame([type |-> Str("sync-state"), time |-> Num(42), paused |-> Bool(FALSE), url |-> Str(VideoUrl)] @@ Spoof) }

KeyFrames ==
    { Frame([type |-> Str("key-exchange"), publicKey |-> Str("AAAA"), curve |-> Str("P-256")]),
      Frame([type |-> Str("key-exchange"), publicKey |-> Str("AAAA")] @@ Spoof),
      Frame([type |-> Str("key-exchange"), publicKey |-> Str(" "), curve |-> Str("P-256")]) }

EncryptedFrames ==
    { Frame([type |-> Str("encrypted"), ciphertext |-> Str("CT"), iv |-> Str("IV"), tag |-> Str("TAG"),
             alg |-> Str("aes-256-gcm"), recipientId |-> Str("bob-sub")]),
      Frame([type |-> Str("encrypted"), ciphertext |-> Str("CT"), iv |-> Str("IV"), tag |-> Str("TAG"),
             salt |-> Str("SALT"), alg |-> Str("chacha20")] @@ Spoof),
      Frame([type |-> Str("encrypted"), ciphertext |-> Str("CT"), iv |-> Str("IV")]),
      Frame([type |-> Str("encrypted"), ciphertext |-> Str("CT")]) }

LivenessFrames ==
    { Frame([type |-> Str("ping"), ts |-> Num(1)]),
      Frame([type |-> Str("pong"), ts |-> Num(1)]) }

OddFrames ==
    { Frame([type |-> Str("dance")]), Frame([text |-> Str("hi")]), Num(42), Null, Unparseable }

Frames == PlainFrames \cup ControlFrames \cup KeyFrames \cup EncryptedFrames
            \cup LivenessFrames \cup OddFrames

(***************************************************************************)
(* Message router (server.js:446-591)                                      *)
(***************************************************************************)
\* typeof msg.ts === "number" ? msg.ts : Date.now()
TsOf(m, t) == IF Field(m, "ts").t = "number" THEN Field(m, "ts") ELSE Num(t)

\* faulty variant: the identity fields of the inbound frame win over the verified ones
Attribution_fromFrame(cl, c, m) ==
    [from |-> OrElse(Field(m, "from"), cl[c].name),
     fromId |-> OrElse(Field(m, "fromId"), cl[c].sub)]

\* from: client.name, fromId: client.sub; the message m is not consulted
Attribution(cl, c, m) == [from |-> cl[c].name, fromId |-> cl[c].sub]

\* faulty variant: only the encryption substrate passes in a room that requires encryption
allowsPlaintext_onlyCrypto(type, encryptionRequired) ==
    \/ type \in {Str("encrypted"), Str("key-exchange")}
    \/ ~encryptionRequired

\* const allowsPlaintext (server.js:450-457)
allowsPlaintext(type, encryptionRequired) ==
    \/ type \in {Str("encrypted"), Str("key-exchange"), Str("system"),
                 Str("episode-changed"), Str("sync-request"), Str("sync-state")}
    \/ ~encryptionRequired

\* the frames handleMessage sends for the parsed message msg of client c
handleMessage(rms, rs, cl, t, roomId, c, msg) ==
    IF msg.t # "object" THEN {}
    ELSE
    LET m == msg.v
        type == Field(m, "type")
        encryptionRequired == isEncryptionRequired(rms, roomId)
    IN
    IF ~allowsPlaintext(type, encryptionRequired) THEN {}
    ELSE IF type = Str("state") THEN
        broadcast(rms, rs, roomId, [type |-> Str("state"), payload |-> Field(m, "payload")], c)
    ELSE IF type = Str("chat") THEN
        broadcast(rms, rs, roomId,
                  [type |-> Str("chat"), text |-> Field(m, "text"),
                   from |-> Attribution(cl, c, m).from, fromId |-> Attribution(cl, c, m).fromId,
                   avatar |-> OrElse(Field(m, "avatar"), OrElse(cl[c].picture, Null)),
                   ts |-> TsOf(m, t)],
                  NoConn)
    ELSE IF type = Str("system") THEN
        broadcast(rms, rs, roomId,
                  [type |-> Str("system"), text |-> Field(m, "text"), ts |-> TsOf(m, t)], NoConn)
    ELSE IF type = Str("typing") THEN
        broadcast(rms, rs, roomId,
                  [type |-> Str("typing"), from |-> Attribution(cl, c, m).from, fromId |-> Attribution(cl, c, m).fromId,
                   active |-> Bool(~Falsy(Field(m, "active"))), ts |-> Num(t)],
                  c)
    ELSE IF type = Str("episode-changed") THEN
        IF ~isNonEmptyString(Field(m, "url")) THEN {}
        ELSE broadcast(rms, rs, roomId,
                  [type |-> Str("episode-changed"), url |-> Field(m, "url"),
                   from |-> Attribution(cl, c, m).from, fromId |-> Attribution(cl, c, m).fromId, ts |-> TsOf(m, t),
                   title |-> IF isNonEmptyString(Field(m, "title")) THEN Field(m, "title") ELSE Undef,
                   seq |-> IF Field(m, "seq").t = "number" THEN Field(m, "seq") ELSE Undef],
                  c)
    ELSE IF type = Str("key-exchange") THEN
        IF ~isNonEmptyString(Field(m, "publicKey")) THEN {}
        ELSE broadcast(rms, rs, roomId,
                  [type |-> Str("key-exchange"), publicKey |-> Field(m, "publicKey"),
                   curve |-> IF isNonEmptyString(Field(m, "curve")) THEN Field(m, "curve")
                             ELSE Str("secp256k1"),
                   from |-> Attribution(cl, c, m).from, fromId |-> Attribution(cl, c, m).fromId],
                  c)
    ELSE IF type = Str("encrypted") THEN
        IF ~isNonEmptyString(Field(m, "ciphertext")) \/ ~isNonEmptyString(Field(m, "iv")) THEN {}
        ELSE broadcast(rms, rs, roomId,
                  [type |-> Str("encrypted"), ciphertext |-> Field(m, "ciphertext"),
                   iv |-> Field(m, "iv"),
                   tag |-> IF isNonEmptyString(Field(m, "tag")) THEN Field(m, "tag") ELSE Undef,
                   salt |-> IF isNonEmptyString(Field(m, "salt")) THEN Field(m, "salt") ELSE Undef,
                   alg |-> IF isNonEmptyString(Field(m, "alg")) THEN Field(m, "alg")
                           ELSE Str("aes-256-gcm"),
                   from |-> Attribution(cl, c, m).from, fromId |-> Attribution(cl, c, m).fromId, ts |-> Num(t)],
                  NoConn)
    ELSE IF type = Str("sync-request") THEN
        broadcast(rms, rs, roomId,
                  [type |-> Str("sync-request"), from |-> Attribution(cl, c, m).from, fromId |-> Attribution(cl, c, m).fromId,
                   ts |-> Num(t)],
                  c)
    ELSE IF type = Str("sync-state") THEN
        broadcast(rms, rs, roomId,
                  [type |-> Str("sync-state"),
                   time |-> IF Field(m, "time").t = "number" THEN Field(m, "time") ELSE Num(0),
                   paused |-> IF Field(m, "paused").t = "boolean" THEN Field(m, "paused")
                              ELSE Bool(TRUE),
                   url |-> IF isNonEmptyString(Field(m, "url")) THEN Field(m, "url") ELSE Str(""),
                   from |-> Attribution(cl, c, m).from, fromId |-> Attribution(cl, c, m).fromId, ts |-> Num(t)],
                  c)
    ELSE {}

(***************************************************************************)
(* State after construction                                                *)
(***************************************************************************)
\* the harness keeps no journal unless a regression run starts one
NoJournal == [kept |-> FALSE, closed |-> {}]

Event(op, c, roomId, msg, sent) ==
    [op |-> op, conn |-> c, roomId |-> roomId, msg |-> msg, sent |-> sent]

\* the process after start-up, the harness holding journal j
Boot(j) ==
    /\ rooms = [r \in {} |-> Null]
    /\ timers = [h \in {} |-> NoRoom]
    /\ readyState = [c \in Conns |-> CLOSED]
    /\ destroyed = {}
    /\ session = [c \in Conns |-> Null]
    /\ client = [c \in Conns |-> Null]
    /\ isAlive = [c \in Conns |-> Undef]
    /\ lastActivity = [c \in Conns |-> Undef]
    /\ now = StartTime
    /\ requireEncryption \in BOOLEAN
    /\ isConnected = FALSE
    /\ mirror = [r \in {} |-> Null]
    /\ inflight = <<>>
    /\ journal = j
    /\ currentRoom = NoRoom
    /\ extSession = FALSE
    /\ connectionStatus = "idle"
    /\ ws = NoSocket
    /\ sockets = [s \in Sockets |-> Null]
    /\ retryTimer = FALSE
    /\ suspended = <<>>
    /\ flushDue = FALSE
    /\ messageQueue = <<>>
    /\ storage = [r \in RoomIds |-> <<>>]
    /\ peerPublicKeys = FALSE
    /\ extEncryptionRequired = TRUE
    /\ toSend = <<>>
    /\ flushTimers = <<>>
    /\ sending = <<>>
    /\ written = {}
    /\ last = Event("start", NoConn, NoRoom, Null, {})

Init == Boot(NoJournal)

\* the sockets in wss.clients: added on upgrade, removed when 'close' is emitted
wssClients == {c \in Conns : readyState[c] # CLOSED}

\* the connections whose closure has attached a client object and its handlers
Attached == {c \in Conns : client[c] # Null}

(***************************************************************************)
(* wss.on("connection") (server.js:261-357)                                *)
(***************************************************************************)
Connection(c, roomId, token) ==
    /\ readyState[c] = CLOSED
    /\ LET verified == verifySessionToken(token)
       IN  IF roomId = NoRoom \/ Falsy(token) \/ verified = Null
           THEN \* socket.close(); return
                /\ readyState' = [readyState EXCEPT ![c] = CLOSING]
                /\ last' = Event("connection", c, roomId, Null, {}) @@ [token |-> token]
                /\ UNCHANGED <<rooms, timers, session, client, isAlive, lastActivity>>
           ELSE LET ensured == ensureRoom(rooms, timers, roomId, NoOpts)
                    \* console.log "Cancelling deletion timer" (server.js:416)
                    log == IF roomId \in DOMAIN rooms /\ rooms[roomId].deletionTimer # NoTimer
                           THEN Str("cancelling-deletion-timer")
                           ELSE Null
                    rms == [ensured.rooms EXCEPT ![roomId].clients = @ \cup {c}]
                    rs == [readyState EXCEPT ![c] = OPEN]
                    cl == [client EXCEPT ![c] =
                             [name |-> OrElse(Field(verified, "name"), Str("Guest")),
                              sub |-> Field(verified, "sub"),
                              picture |-> OrElse(Field(verified, "picture"), Null),
                              roomId |-> roomId]]
                IN  /\ rooms' = rms
                    /\ timers' = ensured.timers
                    /\ readyState' = rs
                    /\ session' = [session EXCEPT ![c] = verified]
                    /\ client' = cl
                    /\ isAlive' = [isAlive EXCEPT ![c] = Bool(TRUE)]
                    /\ lastActivity' = [lastActivity EXCEPT ![c] = Num(now)]
                    /\ last' = Event("connection", c, roomId, log,
                                     broadcastPresence(rms, rs, cl, roomId)) @@ [token |-> token]
    /\ UNCHANGED <<destroyed, now, requireEncryption, journal, extVars>>
    /\ UNCHANGED <<isConnected, mirror, inflight>>

\* faulty variant: a protocol pong is not counted as activity
Pong_ignored(c) ==
    /\ readyState[c] = OPEN
    /\ c \in Attached
    /\ last' = Event("pong", c, client[c].roomId, Null, {})
    /\ UNCHANGED <<rooms, timers, readyState, destroyed, session, client, isAlive, lastActivity,
                   now, requireEncryption, journal, extVars>>
    /\ UNCHANGED <<isConnected, mirror, inflight>>

\* socket.on("pong") (server.js:291-294)
Pong(c) ==
    /\ readyState[c] = OPEN
    /\ c \in Attached
    /\ isAlive' = [isAlive EXCEPT ![c] = Bool(TRUE)]
    /\ lastActivity' = [lastActivity EXCEPT ![c] = Num(now)]
    /\ last' = Event("pong", c, client[c].roomId, Null, {})
    /\ UNCHANGED <<rooms, timers, readyState, destroyed, session, client, now, requireEncryption, journal, extVars>>
    /\ UNCHANGED <<isConnected, mirror, inflight>>

\* faulty variant: whatever a frame carries as url and time is written to the mirror
mirrorUpdate_everyFrame(connected, roomId, msg) ==
    IF connected /\ msg.t = "object"
    THEN <<Command("hset", "updateRoomVideoState", roomId,
                   videoStateData(Field(msg.v, "url"), Field(msg.v, "time")), Null)>>
    ELSE <<>>

\* the command handleMessage hands to the mirror after it has relayed a sync-state
\* frame (server.js:585-588)
mirrorUpdate(connected, roomId, msg) ==
    IF /\ connected
       /\ msg.t = "object"
       /\ Field(msg.v, "type") = Str("sync-state")
       /\ ~Falsy(Field(msg.v, "url"))
    THEN <<Command("hset", "updateRoomVideoState", roomId,
                   videoStateData(Field(msg.v, "url"), Field(msg.v, "time")), Null)>>
    ELSE <<>>

\* faulty variant: a JSON ping is handed to the router like any other frame
Message_relaysPing(c, raw) ==
    /\ readyState[c] = OPEN
    /\ c \in Attached
    /\ isAlive' = [isAlive EXCEPT ![c] = Bool(TRUE)]
    /\ lastActivity' = [lastActivity EXCEPT ![c] = Num(now)]
    /\ LET roomId == client[c].roomId
           sent ==
             IF raw = Unparseable \/ raw = Null THEN {}
             ELSE IF raw.t = "object" /\ Field(raw.v, "type") = Str("ping")
                  THEN broadcast(rooms, readyState, roomId, raw.v, c)
             ELSE handleMessage(rooms, readyState, client, now, roomId, c, raw)
       IN  /\ last' = Event("message", c, roomId, raw, sent)
           /\ inflight' = inflight \o mirrorUpdate(isConnected, roomId, raw)
           /\ Len(inflight') <= MaxInflight
    /\ UNCHANGED <<rooms, timers, readyState, destroyed, session, client, now, requireEncryption, journal, extVars>>
    /\ UNCHANGED <<isConnected, mirror>>

\* faulty variant: a frame is relayed only while the mirror is connected
Message_needsMirror(c, raw) ==
    /\ readyState[c] = OPEN
    /\ c \in Attached
    /\ isAlive' = [isAlive EXCEPT ![c] = Bool(TRUE)]
    /\ lastActivity' = [lastActivity EXCEPT ![c] = Num(now)]
    /\ LET roomId == client[c].roomId
           sent ==
             IF raw = Unparseable \/ raw = Null \/ ~isConnected THEN {}
             ELSE IF raw.t = "object" /\ Field(raw.v, "type") = Str("ping")
                  THEN IF readyState[c] = OPEN
                       THEN {[to |-> c, payload |-> [type |-> Str("pong"), ts |-> Num(now)]]}
                       ELSE {}
             ELSE IF raw.t = "object" /\ Field(raw.v, "type") = Str("pong") THEN {}
             ELSE handleMessage(rooms, readyState, client, now, roomId, c, raw)
       IN  /\ last' = Event("message", c, roomId, raw, sent)
           /\ inflight' = inflight \o mirrorUpdate(isConnected, roomId, raw)
           /\ Len(inflight') <= MaxInflight
    /\ UNCHANGED <<rooms, timers, readyState, destroyed, session, client, now, requireEncryption, journal, extVars>>
    /\ UNCHANGED <<isConnected, mirror>>

\* socket.on("message") (server.js:296-324)
Message(c, raw) ==
    /\ readyState[c] = OPEN
    /\ c \in Attached
    /\ isAlive' = [isAlive EXCEPT ![c] = Bool(TRUE)]
    /\ lastActivity' = [lastActivity EXCEPT ![c] = Num(now)]
    /\ LET roomId == client[c].roomId
           sent ==
             IF raw = Unparseable \/ raw = Null THEN {}
             ELSE IF raw.t = "object" /\ Field(raw.v, "type") = Str("ping")
                  THEN IF readyState[c] = OPEN
                       THEN {[to |-> c, payload |-> [type |-> Str("pong"), ts |-> Num(now)]]}
                       ELSE {}
             ELSE IF raw.t = "object" /\ Field(raw.v, "type") = Str("pong") THEN {}
             ELSE handleMessage(rooms, readyState, client, now, roomId, c, raw)
       IN  /\ last' = Event("message", c, roomId, raw, sent)
           /\ inflight' = inflight \o mirrorUpdate(isConnected, roomId, raw)
           /\ Len(inflight') <= MaxInflight
    /\ UNCHANGED <<rooms, timers, readyState, destroyed, session, client, now, requireEncryption, journal, extVars>>
    /\ UNCHANGED <<isConnected, mirror>>

\* faulty variant: the socket is gone at once and its 'close' callback never runs
ClientClose_skipsCleanup(c) ==
    /\ readyState[c] = OPEN
    /\ readyState' = [readyState EXCEPT ![c] = CLOSED]
    /\ last' = Event("closing", c, NoRoom, Null, {})
    /\ UNCHANGED <<rooms, timers, destroyed, session, client, isAlive, lastActivity, now,
                   requireEncryption, journal, extVars>>
    /\ UNCHANGED <<isConnected, mirror, inflight>>

\* the peer closes or the network drops: ws moves the socket to CLOSING and
\* emits 'close' once the TCP stream has ended
ClientClose(c) ==
    /\ readyState[c] = OPEN
    /\ readyState' = [readyState EXCEPT ![c] = CLOSING]
    /\ last' = Event("closing", c, NoRoom, Null, {})
    /\ UNCHANGED <<rooms, timers, destroyed, session, client, isAlive, lastActivity, now, requireEncryption, journal, extVars>>
    /\ UNCHANGED <<isConnected, mirror, inflight>>

\* faulty variant: the departure is announced before the member is removed
Close_announcesFirst(c) ==
    /\ readyState[c] = CLOSING
    /\ readyState' = [readyState EXCEPT ![c] = CLOSED]
    /\ destroyed' = destroyed \ {c}
    /\ session' = [session EXCEPT ![c] = Null]
    /\ client' = [client EXCEPT ![c] = Null]
    /\ isAlive' = [isAlive EXCEPT ![c] = Undef]
    /\ lastActivity' = [lastActivity EXCEPT ![c] = Undef]
    /\ IF c \notin Attached \/ client[c].roomId \notin DOMAIN rooms
       THEN /\ last' = Event("close", c, NoRoom, Null, {})
            /\ UNCHANGED <<rooms, timers>>
       ELSE LET roomId == client[c].roomId
                left == [rooms EXCEPT ![roomId].clients = @ \ {c}]
                cleared == IF left[roomId].deletionTimer # NoTimer
                           THEN clearTimeout(timers, left[roomId].deletionTimer)
                           ELSE timers
                handle == FreshTimer(left, timers)
            IN  /\ last' = Event("close", c, roomId, Null,
                                 broadcastPresence(rooms, readyState', client, roomId))
                /\ IF left[roomId].clients = {}
                   THEN /\ rooms' = [left EXCEPT ![roomId].deletionTimer = handle]
                        /\ timers' = setTimeout(cleared, handle, roomId)
                   ELSE /\ rooms' = left
                        /\ timers' = timers
    /\ journal' = IF journal.kept /\ c \in Attached
                  THEN [journal EXCEPT !.closed = @ \cup {<<client[c].sub, client[c].roomId>>}]
                  ELSE journal
    /\ UNCHANGED <<now, requireEncryption, extVars>>
    /\ UNCHANGED <<isConnected, mirror, inflight>>

\* socket.on("close") (server.js:326-352); ws removes the socket from wss.clients
Close(c) ==
    /\ readyState[c] = CLOSING
    /\ readyState' = [readyState EXCEPT ![c] = CLOSED]
    /\ destroyed' = destroyed \ {c}
    /\ session' = [session EXCEPT ![c] = Null]
    /\ client' = [client EXCEPT ![c] = Null]
    /\ isAlive' = [isAlive EXCEPT ![c] = Undef]
    /\ lastActivity' = [lastActivity EXCEPT ![c] = Undef]
    /\ IF c \notin Attached \/ client[c].roomId \notin DOMAIN rooms
       THEN /\ last' = Event("close", c, NoRoom, Null, {})
            /\ UNCHANGED <<rooms, timers>>
       ELSE LET roomId == client[c].roomId
                left == [rooms EXCEPT ![roomId].clients = @ \ {c}]
                cleared == IF left[roomId].deletionTimer # NoTimer
                           THEN clearTimeout(timers, left[roomId].deletionTimer)
                           ELSE timers
                handle == FreshTimer(left, timers)
            IN  /\ last' = Event("close", c, roomId, Null,
                                 broadcastPresence(left, readyState', client, roomId))
                /\ IF left[roomId].clients = {}
                   THEN /\ rooms' = [left EXCEPT ![roomId].deletionTimer = handle]
                        /\ timers' = setTimeout(cleared, handle, roomId)
                   ELSE /\ rooms' = left
                        /\ timers' = timers
    /\ journal' = IF journal.kept /\ c \in Attached
                  THEN [journal EXCEPT !.closed = @ \cup {<<client[c].sub, client[c].roomId>>}]
                  ELSE journal
    /\ UNCHANGED <<now, requireEncryption, extVars>>
    /\ UNCHANGED <<isConnected, mirror, inflight>>

\* faulty variant: the callback leaves the registry as it is
TimerFire_keepsRoom(handle) ==
    /\ handle \in DOMAIN timers
    /\ timers' = clearTimeout(timers, handle)
    /\ LET roomId == timers[handle]
       IN  /\ rooms' = rooms
           /\ last' = Event("timer", NoConn, roomId, Null, {})
    /\ UNCHANGED <<readyState, destroyed, session, client, isAlive, lastActivity, now, requireEncryption, journal, extVars>>
    /\ UNCHANGED <<isConnected, mirror, inflight>>

\* the callback of the deletion timer (server.js:343-350)
TimerFire(handle) ==
    /\ handle \in DOMAIN timers
    /\ timers' = clearTimeout(timers, handle)
    /\ LET roomId == timers[handle]
       IN  /\ IF roomId \in DOMAIN rooms /\ rooms[roomId].clients = {}
              THEN rooms' = [r \in DOMAIN rooms \ {roomId} |-> rooms[r]]
              ELSE rooms' = rooms
           /\ last' = Event("timer", NoConn, roomId, Null, {})
    /\ UNCHANGED <<readyState, destroyed, session, client, isAlive, lastActivity, now, requireEncryption, journal, extVars>>
    /\ UNCHANGED <<isConnected, mirror, inflight>>

(***************************************************************************)
(* Heartbeat (server.js:211-252)                                           *)
(***************************************************************************)
\* faulty variant: an unanswered ping is not noticed, only the activity timeout is
HeartbeatVerdict_noPongCheck(c, t) ==
    LET since == t - OrElse(lastActivity[c], Num(0)).v
    IN  IF since > ACTIVITY_TIMEOUT THEN "terminate" ELSE "ping"

\* faulty variant: a socket is given up only after two unanswered pings
HeartbeatVerdict_secondChance(c, t) ==
    LET since == t - OrElse(lastActivity[c], Num(0)).v
    IN  IF since > ACTIVITY_TIMEOUT THEN "terminate"
        ELSE IF isAlive[c] = Bool(FALSE) /\ since > 2 * PING_INTERVAL THEN "terminate"
        ELSE "ping"

\* what one pass of the interval callback decides for a socket at time t
HeartbeatVerdict(c, t) ==
    LET since == t - OrElse(lastActivity[c], Num(0)).v
    IN  IF since > ACTIVITY_TIMEOUT THEN "terminate"
        ELSE IF isAlive[c] = Bool(FALSE) THEN "terminate"
        ELSE "ping"

HeartbeatTick ==
    /\ now < StartTime + MaxTicks * PING_INTERVAL
    /\ now' = now + PING_INTERVAL
    /\ LET terminated == {c \in wssClients : HeartbeatVerdict(c, now') = "terminate"}
           pinged == wssClients \ terminated
       IN  /\ readyState' = [c \in Conns |-> IF c \in terminated THEN CLOSING ELSE readyState[c]]
           /\ destroyed' = destroyed \cup terminated
           /\ isAlive' = [c \in Conns |-> IF c \in pinged THEN Bool(FALSE) ELSE isAlive[c]]
           /\ last' = Event("heartbeat", NoConn, NoRoom, Null,
                            {[to |-> c, payload |-> [type |-> Str("ping"), ts |-> Num(now')]] :
                               c \in {p \in pinged : readyState[p] = OPEN}})
    /\ UNCHANGED <<rooms, timers, session, client, lastActivity, requireEncryption, journal, extVars>>
    /\ UNCHANGED <<isConnected, mirror, inflight>>

(***************************************************************************)
(* POST /rooms (server.js:102-137, 708-716)                                *)
(***************************************************************************)
Bodies ==
    { NoOpts,
      [encryptionRequired |-> Bool(TRUE)],
      [encryptionRequired |-> Bool(FALSE)],
      [encryptionRequired |-> Str("true")],
      [encryptionRequired |-> Str("false")] }

\* bodies that also advertise a video
VideoBodies ==
    { [videoUrl |-> Str(VideoUrl), videoTime |-> Num(42)],
      [encryptionRequired |-> Str("false"), videoUrl |-> Str(VideoUrl), videoTime |-> Num(42)] }

\* Math.floor(Number(x) || 0) for the values a body carries here
FloorNumber(x) == IF x.t = "number" THEN Num(x.v) ELSE Num(0)

RoomOpts(body) ==
    LET videoUrl == OrElse(Field(body, "videoUrl"), Str(""))
    IN  [encryptionRequired |->
             Bool(coerceBoolean(Field(body, "encryptionRequired"), defaultEncryptionRequired)),
         videoUrl |-> videoUrl,
         titleId |-> Str(extractTitleId(videoUrl.v)),
         initialTime |-> FloorNumber(Field(body, "videoTime"))]

\* faulty variant: the claims of the token are read without verifying it
authRequired_decodes(token) ==
    IF Falsy(token) THEN Null ELSE IF token.t = "jwt" THEN token.claims ELSE Null

\* the session authRequired hands to the route, Null when it answers 401
authRequired(token) ==
    IF Falsy(token) THEN Null ELSE verifySessionToken(token)

Request(op, id, opts, token) == [op |-> op, id |-> id, opts |-> opts, token |-> token]

\* the part of POST /rooms that runs once the mirror has been dealt with (server.js:126-136)
RespondCreate(req) ==
    LET ensured == ensureRoom(rooms, timers, req.id, req.opts)
    IN  /\ rooms' = ensured.rooms
        /\ timers' = ensured.timers
        /\ last' = Event("create-room", NoConn, req.id, Obj(req.opts), {})
                       @@ [token |-> req.token, body |-> req.body]

\* uuid is the value of randomUUID().slice(0, 8)
CreateRoom(token, body, uuid) ==
    /\ LET req == Request("create-room", uuid, RoomOpts(body), token) @@ [body |-> body]
       IN  IF authRequired(token) = Null
           THEN \* authRequired answers 401
                /\ last' = Event("create-room", NoConn, NoRoom, Num(401), {}) @@ [token |-> token]
                /\ UNCHANGED <<rooms, timers, inflight>>
           ELSE IF isConnected
           THEN \* await redis.createRoom(roomId, roomOpts)
                /\ Len(inflight) < MaxInflight
                /\ inflight' = Append(inflight,
                                      Command("hset", "createRoom", uuid,
                                              createRoomData(uuid, RoomOpts(body), now), req))
                /\ last' = Event("request", NoConn, uuid, Str("create-room"), {}) @@ [token |-> token]
                /\ UNCHANGED <<rooms, timers>>
           ELSE /\ RespondCreate(req)
                /\ UNCHANGED inflight
    /\ UNCHANGED <<readyState, destroyed, session, client, isAlive, lastActivity, now, requireEncryption, journal, extVars>>
    /\ UNCHANGED <<isConnected, mirror>>

(***************************************************************************)
(* POST /rooms/:id/join and GET /rooms/:id/preview (server.js:139-205)     *)
(***************************************************************************)
\* a ?? b
Coalesce(a, b) == IF a.t \in {"undefined", "null"} THEN b ELSE a

\* room?.key of rooms.get(id), as a JavaScript value
RoomField(rms, id, key) ==
    IF id \notin DOMAIN rms THEN Undef
    ELSE IF key = "encryptionRequired" THEN Bool(rms[id].encryptionRequired)
    ELSE rms[id][key]

\* roomData?.key
DataField(roomData, key) == IF roomData = Null THEN Undef ELSE Field(roomData, key)

\* faulty variant: what the mirror returned is not looked at
JoinResponse_memoryOnly(rms, id, roomData, user) ==
    IF id \notin DOMAIN rms THEN Num(404)
    ELSE Obj([roomId |-> Num(id),
              name |-> OrElse(Field(user, "name"), Str("Guest")),
              encryptionRequired |-> RoomField(rms, id, "encryptionRequired"),
              videoUrl |-> RoomField(rms, id, "videoUrl"),
              titleId |-> RoomField(rms, id, "titleId"),
              initialTime |-> RoomField(rms, id, "initialTime")])

\* the body of the answer of the join preflight (server.js:153-170)
JoinResponse(rms, id, roomData, user) ==
    IF id \notin DOMAIN rms /\ roomData = Null THEN Num(404)
    ELSE LET videoUrl == OrElse(RoomField(rms, id, "videoUrl"),
                                OrElse(DataField(roomData, "videoUrl"), Str("")))
         IN  Obj([roomId |-> Num(id),
                  name |-> OrElse(Field(user, "name"), Str("Guest")),
                  encryptionRequired |->
                      Coalesce(RoomField(rms, id, "encryptionRequired"),
                               Coalesce(DataField(roomData, "encryptionRequired"), Bool(FALSE))),
                  videoUrl |-> videoUrl,
                  titleId |-> OrElse(RoomField(rms, id, "titleId"),
                                     OrElse(DataField(roomData, "titleId"),
                                            Str(extractTitleId(videoUrl.v)))),
                  initialTime |->
                      Coalesce(RoomField(rms, id, "initialTime"),
                               Coalesce(DataField(roomData, "videoTime"), Num(0)))])

\* the body of the answer of the preview (server.js:187-204)
PreviewResponse(rms, id, roomData) ==
    IF id \notin DOMAIN rms /\ roomData = Null THEN Num(404)
    ELSE LET videoUrl == OrElse(RoomField(rms, id, "videoUrl"),
                                OrElse(DataField(roomData, "videoUrl"), Str("")))
         IN  Obj([roomId |-> Num(id),
                  videoUrl |-> videoUrl,
                  titleId |-> OrElse(RoomField(rms, id, "titleId"),
                                     OrElse(DataField(roomData, "titleId"),
                                            Str(extractTitleId(videoUrl.v)))),
                  initialTime |->
                      Coalesce(RoomField(rms, id, "initialTime"),
                               Coalesce(DataField(roomData, "videoTime"), Num(0))),
                  participantCount |->
                      Num(IF id \in DOMAIN rms THEN Cardinality(rms[id].clients) ELSE 0),
                  exists |-> Bool(TRUE)])

\* the part of both routes that runs once roomData is known
RespondLookup(req, roomData) ==
    /\ last' = Event(req.op, NoConn, req.id,
                     IF req.op = "join"
                     THEN JoinResponse(rooms, req.id, roomData, authRequired(req.token))
                     ELSE PreviewResponse(rooms, req.id, roomData),
                     {}) @@ [token |-> req.token, roomData |-> roomData]
    /\ UNCHANGED <<rooms, timers>>

\* faulty variant: the preflight resolves the room the way a connection does
JoinRoom_ensures(token, id) ==
    /\ authRequired(token) # Null
    /\ ~isConnected
    /\ LET ensured == ensureRoom(rooms, timers, id, NoOpts)
       IN  /\ rooms' = ensured.rooms
           /\ timers' = ensured.timers
           /\ last' = Event("join", NoConn, id,
                            JoinResponse(ensured.rooms, id, Null, authRequired(token)),
                            {}) @@ [token |-> token, roomData |-> Null]
    /\ UNCHANGED <<readyState, destroyed, session, client, isAlive, lastActivity, now, requireEncryption, journal, extVars>>
    /\ UNCHANGED <<isConnected, mirror, inflight>>

JoinRoom(token, id) ==
    /\ LET req == Request("join", id, Null, token)
       IN  IF authRequired(token) = Null
           THEN /\ last' = Event("join", NoConn, id, Num(401), {}) @@ [token |-> token, roomData |-> Null]
                /\ UNCHANGED <<rooms, timers, inflight>>
           ELSE IF isConnected
           THEN \* roomData = await redis.getRoom(id)
                /\ Len(inflight) < MaxInflight
                /\ inflight' = Append(inflight, Command("hgetall", "getRoom", id, EmptyHash, req))
                /\ last' = Event("request", NoConn, id, Str("join"), {}) @@ [token |-> token]
                /\ UNCHANGED <<rooms, timers>>
           ELSE /\ RespondLookup(req, Null)
                /\ UNCHANGED inflight
    /\ UNCHANGED <<readyState, destroyed, session, client, isAlive, lastActivity, now, requireEncryption, journal, extVars>>
    /\ UNCHANGED <<isConnected, mirror>>

PreviewRoom(token, id) ==
    /\ LET req == Request("preview", id, Null, token)
       IN  IF authRequired(token) = Null
           THEN /\ last' = Event("preview", NoConn, id, Num(401), {}) @@ [token |-> token, roomData |-> Null]
                /\ UNCHANGED <<rooms, timers, inflight>>
           ELSE IF isConnected
           THEN \* roomData = await redis.getRoom(id)
                /\ Len(inflight) < MaxInflight
                /\ inflight' = Append(inflight, Command("hgetall", "getRoom", id, EmptyHash, req))
                /\ last' = Event("request", NoConn, id, Str("preview"), {}) @@ [token |-> token]
                /\ UNCHANGED <<rooms, timers>>
           ELSE /\ RespondLookup(req, Null)
                /\ UNCHANGED inflight
    /\ UNCHANGED <<readyState, destroyed, session, client, isAlive, lastActivity, now, requireEncryption, journal, extVars>>
    /\ UNCHANGED <<isConnected, mirror>>

(***************************************************************************)
(* The mirror's side (redis.js:25-35, 154-207)                             *)
(***************************************************************************)
\* redis.on("connect")
RedisConnect ==
    /\ ~isConnected
    /\ isConnected' = TRUE
    /\ last' = Event("redis-connect", NoConn, NoRoom, Null, {})
    /\ UNCHANGED <<rooms, timers, readyState, destroyed, session, client, isAlive, lastActivity,
                   now, requireEncryption, journal, extVars, mirror, inflight>>

\* redis.on("error")
RedisError ==
    /\ isConnected
    /\ isConnected' = FALSE
    /\ last' = Event("redis-error", NoConn, NoRoom, Null, {})
    /\ UNCHANGED <<rooms, timers, readyState, destroyed, session, client, isAlive, lastActivity,
                   now, requireEncryption, journal, extVars, mirror, inflight>>

\* the reply to the oldest command arrives: the command took effect (ok) or failed;
\* the function that awaited it goes on, and so does the route that awaited the function
RedisReply(ok) ==
    /\ inflight # <<>>
    /\ LET command == Head(inflight)
           rest == Tail(inflight)
       IN  IF command.call = "createRoom" /\ command.cmd = "hset"
           THEN IF ok
                THEN \* await redis.expire(roomKey, CACHE_TTL.ROOM)
                     /\ mirror' = hset(mirror, command.key, command.fields)
                     /\ inflight' = Append(rest, [command EXCEPT !.cmd = "expire"])
                     /\ last' = Event("mirror", NoConn, command.key, Str("hset"), {})
                     /\ UNCHANGED <<rooms, timers>>
                ELSE /\ mirror' = mirror
                     /\ inflight' = rest
                     /\ RespondCreate(command.req)
           ELSE IF command.call = "createRoom"
           THEN /\ mirror' = IF ok THEN expire(mirror, command.key) ELSE mirror
                /\ inflight' = rest
                /\ RespondCreate(command.req)
           ELSE IF command.call = "updateRoomVideoState"
           THEN /\ mirror' = IF ok THEN hset(mirror, command.key, command.fields) ELSE mirror
                /\ inflight' = rest
                /\ last' = Event("mirror", NoConn, command.key, Str("hset"), {})
                /\ UNCHANGED <<rooms, timers>>
           ELSE /\ mirror' = mirror
                /\ inflight' = rest
                /\ RespondLookup(command.req, IF ok THEN getRoom(mirror, command.key) ELSE Null)
    /\ UNCHANGED <<readyState, destroyed, session, client, isAlive, lastActivity, now,
                   requireEncryption, journal, extVars, isConnected>>

\* a hash that was given an expiry reaches it
MirrorExpire(key) ==
    /\ key \in DOMAIN mirror
    /\ mirror[key].ttl
    /\ mirror' = [r \in DOMAIN mirror \ {key} |-> mirror[r]]
    /\ last' = Event("mirror", NoConn, key, Str("expired"), {})
    /\ UNCHANGED <<rooms, timers, readyState, destroyed, session, client, isAlive, lastActivity,
                   now, requireEncryption, journal, extVars, isConnected, inflight>>

(***************************************************************************)
(* The hub                                                                 *)
(***************************************************************************)
\* frames that stand for every kind of inbound activity: a JSON ping, a JSON pong,
\* a routed frame and text that does not decode
ActivityFrames ==
    { Frame([type |-> Str("ping"), ts |-> Num(1)]),
      Frame([type |-> Str("pong"), ts |-> Num(1)]),
      Frame([type |-> Str("chat"), text |-> Str("hi")]),
      Unparseable }

\* every callback of the hub
NextHub ==
    \/ \E c \in Conns, roomId \in RoomIds \cup {NoRoom}, token \in Tokens :
          Connection(c, roomId, token)
    \/ \E c \in Conns : Pong(c)
    \/ \E c \in Conns, raw \in Frames : Message(c, raw)
    \/ \E c \in Conns : ClientClose(c)
    \/ \E c \in Conns : Close(c)
    \/ \E handle \in DOMAIN timers : TimerFire(handle)
    \/ HeartbeatTick
    \/ \E token \in BearerTokens, body \in Bodies, uuid \in RoomIds :
          CreateRoom(token, body, uuid)
    \/ \E token \in BearerTokens, id \in RoomIds : JoinRoom(token, id)
    \/ \E token \in BearerTokens, id \in RoomIds : PreviewRoom(token, id)
    \/ RedisConnect
    \/ RedisError
    \/ \E ok \in BOOLEAN : RedisReply(ok)
    \/ \E key \in DOMAIN mirror : MirrorExpire(key)

SpecHub == Init /\ [][NextHub]_vars

(***************************************************************************)
(* The room lifecycle: the callbacks that write the registry and the       *)
(* deletion timers.  The heartbeat and the message callback are left out:  *)
(* they write neither, and the one thing the heartbeat does to a socket    *)
(* that the registry can see, readyState leaving OPEN, ClientClose does    *)
(* too.                                                                    *)
(***************************************************************************)
Next ==
    \/ \E c \in Conns, roomId \in RoomIds \cup {NoRoom}, token \in BearerTokens :
          Connection(c, roomId, token)
    \/ \E c \in Conns : ClientClose(c)
    \/ \E c \in Conns : Close(c)
    \/ \E handle \in DOMAIN timers : TimerFire(handle)
    \/ \E token \in BearerTokens, body \in Bodies, uuid \in RoomIds :
          CreateRoom(token, body, uuid)

Spec == Init /\ [][Next]_vars

\* a room id for the specifications whose callbacks never look at a second room
OneRoom == {Min(RoomIds)}

(***************************************************************************)
(* The router under every kind of inbound frame, in one room.  The         *)
(* heartbeat and the deletion timers are left out: the router reads the    *)
(* room's record, the members' readyState and the client objects, and      *)
(* every value of these is reached by connecting, closing and creating     *)
(* rooms.                                                                  *)
(***************************************************************************)
NextRelay ==
    \/ \E c \in Conns, roomId \in OneRoom \cup {NoRoom}, token \in Tokens :
          Connection(c, roomId, token)
    \/ \E c \in Conns, raw \in Frames : Message(c, raw)
    \/ \E c \in Conns : ClientClose(c)
    \/ \E c \in Conns : Close(c)
    \/ \E token \in BearerTokens, body \in Bodies, uuid \in OneRoom :
          CreateRoom(token, body, uuid)

SpecRelay == Init /\ [][NextRelay]_vars

(***************************************************************************)
(* The heartbeat: the interval callback and everything that counts as      *)
(* activity of a connection, in one room.                                  *)
(***************************************************************************)
NextHeartbeat ==
    \/ \E c \in Conns, roomId \in OneRoom \cup {NoRoom}, token \in BearerTokens :
          Connection(c, roomId, token)
    \/ \E c \in Conns : Pong(c)
    \/ \E c \in Conns, raw \in ActivityFrames : Message(c, raw)
    \/ \E c \in Conns : ClientClose(c)
    \/ \E c \in Conns : Close(c)
    \/ HeartbeatTick

SpecHeartbeat == Init /\ [][NextHeartbeat]_vars

(***************************************************************************)
(* The control plane: the three routes, the mirror they await and the      *)
(* callbacks that write the registry, for one room and one connection.     *)
(***************************************************************************)
\* the Authorization header of a request: a token that verifies, one that does not,
\* and no token
RequestTokens == BearerTokens \cup {Null}

OneConn == {Min(Conns)}

\* a body that asks for encryption and one that advertises a video
ControlBodies ==
    { [encryptionRequired |-> Bool(TRUE)],
      [encryptionRequired |-> Str("false"), videoUrl |-> Str(VideoUrl), videoTime |-> Num(42)] }

NextControl ==
    \/ \E c \in OneConn, roomId \in OneRoom : Connection(c, roomId, Jwt(Alice, TRUE))
    \/ \E c \in OneConn : ClientClose(c)
    \/ \E c \in OneConn : Close(c)
    \/ \E handle \in DOMAIN timers : TimerFire(handle)
    \/ \E token \in RequestTokens, body \in ControlBodies, uuid \in OneRoom :
          CreateRoom(token, body, uuid)
    \/ \E token \in RequestTokens, id \in OneRoom : JoinRoom(token, id)
    \/ \E token \in RequestTokens, id \in OneRoom : PreviewRoom(token, id)
    \/ RedisConnect
    \/ RedisError
    \/ \E ok \in BOOLEAN : RedisReply(ok)
    \/ \E key \in DOMAIN mirror : MirrorExpire(key)

SpecControl == Init /\ [][NextControl]_vars

(***************************************************************************)
(* Room ids as clients name them: the connection handler and the lookup    *)
(* routes take the id from the request, whatever its shape.                *)
(***************************************************************************)
\* RoomIds are ids as randomUUID().slice(0, 8) makes them; this one stands for an
\* id a client made up that is not 3 to 64 characters of [A-Za-z0-9_-], such as "ab"
OddRoomId == MaxRooms + 1

AnyRoomIds == OneRoom \cup {OddRoomId}

NextNaming ==
    \/ \E c \in Conns, roomId \in AnyRoomIds : Connection(c, roomId, Jwt(Alice, TRUE))
    \/ \E c \in Conns : ClientClose(c)
    \/ \E c \in Conns : Close(c)
    \/ \E token \in BearerTokens, id \in AnyRoomIds : JoinRoom(token, id)
    \/ \E token \in BearerTokens, id \in AnyRoomIds : PreviewRoom(token, id)

SpecNaming == Init /\ [][NextNaming]_vars

(***************************************************************************)
(* The reconnect regression (tests/ws-regression.js): a room created       *)
(* without encryption, two signed-in members that send playback state and  *)
(* close and re-open their connections, the harness keeping its journal.   *)
(***************************************************************************)
StateFrames ==
    { Frame([type |-> Str("state"), payload |-> Obj("t=12")]),
      Frame([type |-> Str("state"), payload |-> Obj("t=25")]) }

InitRegression == Boot([NoJournal EXCEPT !.kept = TRUE])

NextRegression ==
    \/ \E uuid \in OneRoom :
          CreateRoom(Jwt(Alice, TRUE), [encryptionRequired |-> Bool(FALSE)], uuid)
    \/ \E c \in Conns, roomId \in OneRoom, s \in Sessions : Connection(c, roomId, Jwt(s, TRUE))
    \/ \E c \in Conns, raw \in StateFrames : Message(c, raw)
    \/ \E c \in Conns : ClientClose(c)
    \/ \E c \in Conns : Close(c)

SpecRegression == InitRegression /\ [][NextRegression]_vars

(***************************************************************************)
(* Room clean-up with the event loop running: a pending timer fires and a  *)
(* closing socket gets its 'close' callback.                               *)
(***************************************************************************)
NextCleanup ==
    \/ \E body \in Bodies, uuid \in OneRoom : CreateRoom(Jwt(Alice, TRUE), body, uuid)
    \/ \E c \in Conns, roomId \in OneRoom, s \in Sessions : Connection(c, roomId, Jwt(s, TRUE))
    \/ \E c \in Conns : ClientClose(c)
    \/ \E c \in Conns : Close(c)
    \/ \E handle \in DOMAIN timers : TimerFire(handle)

FairCleanup ==
    /\ WF_vars(\E handle \in DOMAIN timers : TimerFire(handle))
    /\ \A c \in Conns : WF_vars(Close(c))

SpecCleanup == Init /\ [][NextCleanup]_vars /\ FairCleanup

(***************************************************************************)
(* Advertised playback position: members of one room report their position *)
(* with sync-state frames while the mirror is reachable, and newcomers ask  *)
(* the join preflight.                                                     *)
(***************************************************************************)
SyncState ==
    Frame([type |-> Str("sync-state"), time |-> Num(42), paused |-> Bool(FALSE), url |-> Str(VideoUrl)])

\* frames whose content is the members' business only
BlindFrames ==
    { Frame([type |-> Str("encrypted"), ciphertext |-> Str("CT"), iv |-> Str("IV")]),
      Frame([type |-> Str("key-exchange"), publicKey |-> Str("AAAA")]),
      Frame([type |-> Str("chat"), text |-> Str("hi")]),
      Frame([type |-> Str("typing"), active |-> Bool(TRUE)]),
      Frame([type |-> Str("state"), payload |-> Obj("t=12")]) }

NextSync ==
    \/ \E c \in Conns, roomId \in OneRoom : Connection(c, roomId, Jwt(Alice, TRUE))
    \/ \E c \in Conns, raw \in {SyncState} \cup BlindFrames : Message(c, raw)
    \/ \E c \in Conns : ClientClose(c)
    \/ \E c \in Conns : Close(c)
    \/ \E id \in OneRoom : JoinRoom(Jwt(Alice, TRUE), id)
    \/ \E uuid \in OneRoom : CreateRoom(Jwt(Alice, TRUE), [encryptionRequired |-> Bool(TRUE)], uuid)
    \/ RedisConnect
    \/ \E ok \in BOOLEAN : RedisReply(ok)

SpecSync == Init /\ [][NextSync]_vars

(***************************************************************************)
(* Two rooms side by side: members of either chat and report playback.     *)
(***************************************************************************)
RoomFrames ==
    { Frame([type |-> Str("chat"), text |-> Str("hi")]),
      Frame([type |-> Str("state"), payload |-> Obj("t=12")]),
      Frame([type |-> Str("system"), text |-> Str("joined")]) }

NextRooms ==
    \/ \E c \in Conns, roomId \in AnyRoomIds, s \in Sessions : Connection(c, roomId, Jwt(s, TRUE))
    \/ \E c \in Conns, raw \in RoomFrames : Message(c, raw)
    \/ \E c \in Conns : ClientClose(c)
    \/ \E c \in Conns : Close(c)

SpecRooms == Init /\ [][NextRooms]_vars

(***************************************************************************)
(* The extension's background worker (extension/content-script.js)         *)
(*                                                                         *)
(* Every listener and every continuation of an async function is one       *)
(* action. The worker's module-level variables are read into a record,     *)
(* the helpers the listener calls are applied to it in the order of the    *)
(* code, and the result is committed. The network is the environment: a    *)
(* WebSocket opens or closes, a fetch answers, in any order.               *)
(***************************************************************************)
\* the worker's variables as one value
Worker ==
    [currentRoom |-> currentRoom, extSession |-> extSession,
     connectionStatus |-> connectionStatus, ws |-> ws, sockets |-> sockets,
     retryTimer |-> retryTimer, suspended |-> suspended, flushDue |-> flushDue,
     messageQueue |-> messageQueue, storage |-> storage,
     peerPublicKeys |-> peerPublicKeys, extEncryptionRequired |-> extEncryptionRequired,
     toSend |-> toSend, flushTimers |-> flushTimers, sending |-> sending,
     written |-> written]

\* a closed socket the worker no longer refers to is garbage
Swept(S) ==
    [s \in DOMAIN S.sockets |->
        IF S.sockets[s] # Null /\ S.sockets[s].readyState = CLOSED /\ S.ws # s
        THEN Null ELSE S.sockets[s]]

\* what a listener leaves behind; the server is another process
Commit(S) ==
    /\ Len(S.suspended) <= MaxSuspended
    /\ currentRoom' = S.currentRoom
    /\ extSession' = S.extSession
    /\ connectionStatus' = S.connectionStatus
    /\ ws' = S.ws
    /\ sockets' = Swept(S)
    /\ retryTimer' = S.retryTimer
    /\ suspended' = S.suspended
    /\ flushDue' = S.flushDue
    /\ messageQueue' = S.messageQueue
    /\ storage' = S.storage
    /\ peerPublicKeys' = S.peerPublicKeys
    /\ extEncryptionRequired' = S.extEncryptionRequired
    /\ toSend' = S.toSend
    /\ flushTimers' = S.flushTimers
    /\ sending' = S.sending
    /\ written' = S.written
    /\ UNCHANGED <<serverVars, last>>

\* ws && ws.readyState === WebSocket.OPEN
WsIsOpen(S) == S.ws # NoSocket /\ S.sockets[S.ws].readyState = OPEN

\* WebSocket.close(): a socket that is connecting or open starts closing
CloseSocket(socks, s) ==
    IF socks[s].readyState \in {CONNECTING, OPEN}
    THEN [socks EXCEPT ![s].readyState = CLOSING]
    ELSE socks

\* teardownSocket(preserveKeys, resetAttempts) (content-script.js:5148-5189); the
\* retry counter only sets the delay of the retry timer and is left out
teardownSocket(S, preserveKeys) ==
    [S EXCEPT !.retryTimer = FALSE,
              !.peerPublicKeys = IF preserveKeys THEN @ ELSE FALSE,
              !.connectionStatus = "idle",
              !.sockets = IF S.ws # NoSocket THEN CloseSocket(@, S.ws) ELSE @,
              !.ws = NoSocket]

\* scheduleReconnect(forceImmediate) (content-script.js:5191-5241)
scheduleReconnect(S, forceImmediate) ==
    IF S.currentRoom = NoRoom THEN [S EXCEPT !.connectionStatus = "idle"]
    ELSE IF (S.retryTimer \/ S.connectionStatus = "connecting")
            /\ ~(forceImmediate /\ S.retryTimer)
    THEN S
    ELSE [S EXCEPT !.connectionStatus = "reconnecting", !.retryTimer = TRUE]

\* connectSocket() up to its await (content-script.js:4923-4939)
connectSocket(S) ==
    IF S.connectionStatus = "connecting" THEN S
    ELSE LET torn == teardownSocket(S, TRUE)
         IN  IF torn.currentRoom = NoRoom \/ ~torn.extSession THEN torn
             ELSE [torn EXCEPT !.connectionStatus = "connecting",
                               !.suspended = Append(@, [fn |-> "connectSocket"])]

\* the sequence without its i-th element
RemoveAt(seq, i) == SubSeq(seq, 1, i - 1) \o SubSeq(seq, i + 1, Len(seq))

\* the slots no WebSocket object occupies
FreeSockets == {s \in DOMAIN sockets : sockets[s] = Null}

\* encodeURIComponent(currentRoom) in the socket's URL
RoomParam(room) == IF room = NoRoom THEN Str("null") ELSE Str(room)

\* connectSocket() after loadPersistedPeerKeys has answered (content-script.js:
\* 4940-4954); the keys kept in memory are a superset of the persisted ones, so
\* nothing is restored. A null session makes session.token throw.
ConnectResume(i) ==
    /\ i \in DOMAIN suspended
    /\ suspended[i].fn = "connectSocket"
    /\ LET S == [Worker EXCEPT !.suspended = RemoveAt(@, i)]
       IN  IF ~extSession THEN Commit(S)
           ELSE /\ FreeSockets # {}
                /\ LET s == Min(FreeSockets)
                   IN  Commit([S EXCEPT !.sockets[s] = [roomId |-> RoomParam(currentRoom),
                                                        readyState |-> CONNECTING],
                                        !.ws = s])

\* the "open" listener (content-script.js:4956-5006)
WsOpen(s) ==
    /\ sockets[s] # Null
    /\ sockets[s].readyState = CONNECTING
    /\ Commit([Worker EXCEPT !.sockets[s].readyState = OPEN,
                             !.retryTimer = FALSE,
                             !.connectionStatus = "connected",
                             !.flushDue = TRUE])

\* the "close" listener (content-script.js:5041-5049): the connection failed, was
\* closed by the other side, or finished closing
WsClose(s) ==
    /\ sockets[s] # Null
    /\ sockets[s].readyState # CLOSED
    /\ Commit(scheduleReconnect([Worker EXCEPT !.sockets[s].readyState = CLOSED], FALSE))

\* the retry timer's callback and attemptReconnect() up to its await
\* (content-script.js:5237-5267)
RetryTimerFires(onLine) ==
    /\ retryTimer
    /\ LET S == [Worker EXCEPT !.retryTimer = FALSE]
       IN  Commit(IF ~onLine THEN scheduleReconnect(S, FALSE)
                  ELSE IF S.currentRoom = NoRoom \/ ~S.extSession
                  THEN [S EXCEPT !.connectionStatus = "disconnected"]
                  ELSE [S EXCEPT !.suspended = Append(@, [fn |-> "attemptReconnect"])])

\* what the preview request of attemptReconnect can come back with
PreviewOutcomes == {"ok", "unauthorized", "not-found", "failed"}

\* attemptReconnect() after the preview answered (content-script.js:5269-5307)
PreviewReply(i, res) ==
    /\ i \in DOMAIN suspended
    /\ suspended[i].fn = "attemptReconnect"
    /\ LET S == [Worker EXCEPT !.suspended = RemoveAt(@, i)]
       IN  Commit(CASE res = "unauthorized" -> [S EXCEPT !.connectionStatus = "auth-required"]
                    [] res = "not-found" ->
                          [S EXCEPT !.connectionStatus = "disconnected",
                                    !.storage = IF S.currentRoom = NoRoom THEN @
                                                ELSE [@ EXCEPT ![S.currentRoom] = <<>>],
                                    !.currentRoom = NoRoom]
                    [] res = "failed" -> scheduleReconnect(S, FALSE)
                    [] OTHER -> connectSocket(S))

\* handleJoin(roomId, name, token) up to its fetch (content-script.js:4745-4768)
HandleJoin(roomId, token) ==
    /\ Len(suspended) < MaxSuspended
    /\ LET S == [Worker EXCEPT !.extSession = @ \/ token]
       IN  Commit(IF ~S.extSession THEN S
                  ELSE [S EXCEPT !.suspended = Append(@, [fn |-> "handleJoin",
                                                         roomId |-> roomId])])

\* clearMessageQueue(persist) (content-script.js:5883-5886)
clearMessageQueue(S, persist) ==
    [S EXCEPT !.messageQueue = <<>>,
              !.storage = IF persist /\ S.currentRoom # NoRoom
                          THEN [@ EXCEPT ![S.currentRoom] = <<>>] ELSE @]

\* clearPersistedQueue(currentRoom) and clearMessageQueue(false), as every caller
\* pairs them (content-script.js:4612-4616, 4785-4788)
ForgetRoom(S) ==
    IF S.currentRoom = NoRoom THEN S
    ELSE clearMessageQueue([S EXCEPT !.storage[S.currentRoom] = <<>>], FALSE)

\* handleJoin after the join request answered, up to loadPersistedQueue
\* (content-script.js:4770-4798)
JoinReply(i, ok) ==
    /\ i \in DOMAIN suspended
    /\ suspended[i].fn = "handleJoin"
    /\ LET S == [Worker EXCEPT !.suspended = RemoveAt(@, i)]
           roomId == suspended[i].roomId
           torn == IF S.currentRoom # NoRoom /\ S.currentRoom # roomId
                   THEN teardownSocket(ForgetRoom(S), FALSE)
                   ELSE teardownSocket(S, TRUE)
       IN  Commit(IF ~ok THEN S
                  ELSE [torn EXCEPT !.currentRoom = roomId,
                                    !.suspended = Append(@, [fn |-> "loadPersistedQueue"])])

\* loadPersistedQueue's callback and the rest of handleJoin (content-script.js:
\* 5778-5788, 4799-4805)
JoinLoaded(i) ==
    /\ i \in DOMAIN suspended
    /\ suspended[i].fn = "loadPersistedQueue"
    /\ LET S == [Worker EXCEPT !.suspended = RemoveAt(@, i)]
           list == IF S.currentRoom = NoRoom THEN <<>> ELSE S.storage[S.currentRoom]
       IN  Commit(connectSocket(IF list # <<>> THEN [S EXCEPT !.messageQueue = list] ELSE S))

\* onMessage "leave-room" (content-script.js:4610-4624)
LeaveRoom ==
    /\ Commit([teardownSocket(ForgetRoom(Worker), FALSE) EXCEPT !.currentRoom = NoRoom])

\* onMessage "auth-clear" (content-script.js:4684-4703)
AuthClear ==
    /\ extSession
    /\ Commit([teardownSocket(ForgetRoom([Worker EXCEPT !.extSession = FALSE]), FALSE)
                  EXCEPT !.currentRoom = NoRoom])

\* onMessage "force-reconnect" (content-script.js:4672-4675)
ForceReconnect ==
    /\ Commit(scheduleReconnect(Worker, TRUE))

\* checkConnectionHealth() (content-script.js:5087-5104); stale says whether the
\* last pong is older than HEARTBEAT_TIMEOUT
checkConnectionHealth(stale) ==
    /\ Commit(IF currentRoom = NoRoom THEN Worker
              ELSE IF ~WsIsOpen(Worker) THEN scheduleReconnect(Worker, FALSE)
              ELSE IF stale
              THEN scheduleReconnect([Worker EXCEPT !.sockets = CloseSocket(@, ws)], FALSE)
              ELSE Worker)

\* onMessage "get-connection-status" (content-script.js:4649-4671)
GetConnectionStatus ==
    /\ Commit(IF currentRoom # NoRoom /\ connectionStatus = "connected" /\ ~WsIsOpen(Worker)
              THEN scheduleReconnect(Worker, FALSE)
              ELSE Worker)

(***************************************************************************)
(* The offline queue (content-script.js:5674-5705, 5742-5886)              *)
(***************************************************************************)
\* no _dedupeType on an entry, no dedupeType argument
NoDedupe == "none"

\* the chat payload sendChat builds for a text (content-script.js:5677-5682)
ChatPayload(text) == [type |-> "chat", text |-> text, dedupeType |-> NoDedupe]

\* persistQueue(roomId) (content-script.js:5763-5771)
persistQueue(S) ==
    IF S.currentRoom = NoRoom THEN S
    ELSE [S EXCEPT !.storage[S.currentRoom] =
                       SubSeq(S.messageQueue,
                              IF Len(S.messageQueue) > MAX_QUEUE_SIZE
                              THEN Len(S.messageQueue) - MAX_QUEUE_SIZE + 1 ELSE 1,
                              Len(S.messageQueue))]

\* the entries a dedupeType leaves in the queue (content-script.js:5743-5750)
RECURSIVE Deduped(_, _)
Deduped(queue, dedupeType) ==
    IF queue = <<>> THEN <<>>
    ELSE IF Head(queue).dedupeType = dedupeType \/ Head(queue).type = dedupeType
    THEN Deduped(Tail(queue), dedupeType)
    ELSE <<Head(queue)>> \o Deduped(Tail(queue), dedupeType)

\* queueMessage(payload, dedupeType) (content-script.js:5742-5761)
queueMessage(S, payload, dedupeType) ==
    LET kept == IF dedupeType # NoDedupe THEN Deduped(S.messageQueue, dedupeType)
                ELSE S.messageQueue
        entry == IF dedupeType # NoDedupe THEN [payload EXCEPT !.dedupeType = dedupeType]
                 ELSE payload
        room == IF Len(kept) >= MAX_QUEUE_SIZE THEN Tail(kept) ELSE kept
    IN  persistQueue([S EXCEPT !.messageQueue = Append(room, entry)])

\* the texts whose chat is in flight between the listener and the socket
ChatsTyped ==
    {messageQueue[i].text : i \in DOMAIN messageQueue}
        \cup {flushTimers[i].text : i \in DOMAIN flushTimers}
        \cup {sending[i].payload.text : i \in DOMAIN sending}
        \cup written

\* sendChat(text) up to the await inside sendEncryptedPayload (content-script.js:
\* 5674-5691, 6565-6567)
SendChat(text) ==
    /\ text \notin ChatsTyped
    /\ Commit(IF ~WsIsOpen(Worker) THEN queueMessage(Worker, ChatPayload(text), NoDedupe)
              ELSE [Worker EXCEPT !.sending = Append(@, [payload |-> ChatPayload(text),
                                                         origin |-> "sendChat"])])

\* a flush has timers that have not fired or sends that have not settled
FlushInProgress(S) ==
    S.flushTimers # <<>> \/ \E i \in DOMAIN S.sending : S.sending[i].origin = "flush"

\* flushMessageQueue() (content-script.js:5805-5822): the queue is emptied into one
\* timer per entry, 50 ms apart; a flush that starts while another is in progress
\* is taken as its continuation
flushMessageQueue(S) ==
    IF S.messageQueue = <<>> \/ ~WsIsOpen(S) THEN S
    ELSE [S EXCEPT !.toSend = IF FlushInProgress(S) THEN @ \o S.messageQueue
                             ELSE S.messageQueue,
                   !.flushTimers = @ \o S.messageQueue,
                   !.messageQueue = <<>>]

\* the timers that call flushMessageQueue (content-script.js:5000-5005, 6403); a
\* timer armed while another is pending is taken to fire together with it
FlushTimerFires ==
    /\ flushDue
    /\ Commit(flushMessageQueue([Worker EXCEPT !.flushDue = FALSE]))

\* onComplete of a flush (content-script.js:5814-5820); the flush is complete when
\* none of its timers and none of its sends is outstanding
onComplete(S) ==
    IF ~FlushInProgress(S) /\ S.messageQueue = <<>> THEN persistQueue(S) ELSE S

\* a timer of the flush (content-script.js:5824-5859): chat entries only, the
\* worker queues no other type here
DeferredSend ==
    /\ flushTimers # <<>>
    /\ LET payload == Head(flushTimers)
           S == [Worker EXCEPT !.flushTimers = Tail(@)]
       IN  Commit(IF ~WsIsOpen(S)
                  THEN onComplete([S EXCEPT !.messageQueue = <<payload>> \o @])
                  ELSE [S EXCEPT !.sending = Append(@, [payload |-> payload,
                                                        origin |-> "flush"])])

\* ws.send(frame) for a payload, ws being a socket: the frame counts as written,
\* whatever the browser does with a frame on a socket that is no longer open
Send(S, payload) == [S EXCEPT !.written = @ \cup {payload.text}]

\* sendEncryptedPayload after ensureKeyPair, and the then() of its caller
\* (content-script.js:6568-6595, 5691-5704, 5859-5877)
EncryptDone(i) ==
    /\ i \in DOMAIN sending
    /\ LET payload == sending[i].payload
           flush == sending[i].origin = "flush"
           S == [Worker EXCEPT !.sending = RemoveAt(@, i)]
           dedupeKey == IF payload.dedupeType # NoDedupe THEN payload.dedupeType
                        ELSE payload.type
       IN  Commit(CASE S.peerPublicKeys /\ S.ws = NoSocket -> S
                    [] S.peerPublicKeys /\ S.ws # NoSocket ->
                          IF flush THEN onComplete(Send(S, payload)) ELSE Send(S, payload)
                    [] ~S.peerPublicKeys /\ ~S.extEncryptionRequired /\ S.ws = NoSocket -> S
                    [] ~S.peerPublicKeys /\ ~S.extEncryptionRequired /\ S.ws # NoSocket ->
                          IF flush THEN onComplete(Send(S, payload)) ELSE Send(S, payload)
                    [] OTHER ->
                          IF flush THEN onComplete(queueMessage(S, payload, dedupeKey))
                          ELSE queueMessage(S, payload, NoDedupe))

\* handleKeyExchange(message) for a peer's key (content-script.js:6368-6408)
KeyExchange ==
    /\ \E s \in DOMAIN sockets : sockets[s] # Null /\ sockets[s].readyState = OPEN
    /\ Commit([Worker EXCEPT !.peerPublicKeys = TRUE,
                             !.flushDue = @ \/ (~peerPublicKeys /\ messageQueue # <<>>)])

\* routeIncoming for a presence frame (content-script.js:5374-5376)
Presence(required) ==
    /\ \E s \in DOMAIN sockets : sockets[s] # Null /\ sockets[s].readyState = OPEN
    /\ Commit([Worker EXCEPT !.extEncryptionRequired = required])

(***************************************************************************)
(* The worker's connection: a user who joins, leaves and signs out, a      *)
(* network that opens or fails every socket and answers every request.     *)
(***************************************************************************)
NextWorker ==
    \/ \E roomId \in RoomIds, token \in BOOLEAN : HandleJoin(roomId, token)
    \/ \E i \in 1..MaxSuspended, ok \in BOOLEAN : JoinReply(i, ok)
    \/ \E i \in 1..MaxSuspended : JoinLoaded(i)
    \/ \E i \in 1..MaxSuspended : ConnectResume(i)
    \/ \E s \in Sockets : WsOpen(s)
    \/ \E s \in Sockets : WsClose(s)
    \/ \E onLine \in BOOLEAN : RetryTimerFires(onLine)
    \/ \E i \in 1..MaxSuspended, res \in PreviewOutcomes : PreviewReply(i, res)
    \/ LeaveRoom
    \/ AuthClear
    \/ ForceReconnect
    \/ \E stale \in BOOLEAN : checkConnectionHealth(stale)
    \/ GetConnectionStatus
    \/ FlushTimerFires

\* timers fire, the health check keeps running (content-script.js:5107), requests
\* are answered, and a socket that is connecting or closing gets its event; the
\* user owes nothing
FairWorker ==
    /\ WF_vars(\E s \in Sockets : sockets[s] # Null /\ sockets[s].readyState = CONNECTING
                                  /\ (WsOpen(s) \/ WsClose(s)))
    /\ WF_vars(\E s \in Sockets : sockets[s] # Null /\ sockets[s].readyState = CLOSING
                                  /\ WsClose(s))
    /\ WF_vars(\E onLine \in BOOLEAN : RetryTimerFires(onLine))
    /\ WF_vars(\E i \in 1..MaxSuspended, res \in PreviewOutcomes : PreviewReply(i, res))
    /\ WF_vars(\E i \in 1..MaxSuspended, ok \in BOOLEAN : JoinReply(i, ok))
    /\ WF_vars(\E i \in 1..MaxSuspended : JoinLoaded(i))
    /\ WF_vars(\E i \in 1..MaxSuspended : ConnectResume(i))
    /\ WF_vars(FlushTimerFires)
    /\ WF_vars(\E stale \in BOOLEAN : checkConnectionHealth(stale))

\* the worker starts with the server's switches in their defaults
InitWorker == Init /\ ~requireEncryption

SpecWorker == InitWorker /\ [][NextWorker]_vars /\ FairWorker

(***************************************************************************)
(* The worker's queue: a user who joins one room once and types chats on   *)
(* and off line, one after the other; peers whose keys arrive or not.      *)
(***************************************************************************)
\* the text the user types next
NextText == Min(Texts \ ChatsTyped)

NextQueue ==
    \/ \E roomId \in RoomIds : currentRoom = NoRoom /\ suspended = <<>> /\ HandleJoin(roomId, TRUE)
    \/ \E i \in 1..MaxSuspended : JoinReply(i, TRUE)
    \/ \E i \in 1..MaxSuspended : JoinLoaded(i)
    \/ \E i \in 1..MaxSuspended : ConnectResume(i)
    \/ \E s \in Sockets : WsOpen(s)
    \/ \E s \in Sockets : WsClose(s)
    \/ Texts \ ChatsTyped # {} /\ SendChat(NextText)
    \/ FlushTimerFires
    \/ DeferredSend
    \/ \E i \in 1..MaxChats : EncryptDone(i)
    \/ KeyExchange
    \/ \E required \in BOOLEAN : Presence(required)

SpecQueue == InitWorker /\ [][NextQueue]_vars

(***************************************************************************)
(* Properties of the router                                                *)
(***************************************************************************)
\* the type of the frame the last message callback parsed
LastType ==
    IF last.op = "message" /\ last.msg.t = "object" THEN Field(last.msg.v, "type") ELSE Undef

\* the fields of that frame
LastFields == IF last.op = "message" /\ last.msg.t = "object" THEN last.msg.v ELSE NoOpts

\* the frames the last callback sent to connection m
SentTo(m) == {s \in last.sent : s.to = m}

\* the members of the sender's room other than the sender
Others == IF last.roomId \in DOMAIN rooms THEN rooms[last.roomId].clients \ {last.conn} ELSE {}

LastRoomEncrypted == last.roomId \in DOMAIN rooms /\ rooms[last.roomId].encryptionRequired

PlaintextTypes == {Str("state"), Str("chat"), Str("typing")}

AttributingTypes ==
    {Str("chat"), Str("typing"), Str("episode-changed"), Str("key-exchange"),
     Str("encrypted"), Str("sync-request"), Str("sync-state")}

\* C1: in a room that requires encryption, a state, chat or typing frame makes the
\* router send nothing to any member other than the sender.
C1_PlaintextBlocked ==
    (LastType \in PlaintextTypes /\ LastRoomEncrypted)
        => \A m \in Others : SentTo(m) = {}

\* a chat frame was handled in an encrypted room in which another member is open
C1_Witness ==
    /\ LastType = Str("chat")
    /\ LastRoomEncrypted
    /\ \E m \in Others : readyState[m] = OPEN

\* C4 as stated: every sender-attributing envelope carries the name and the sub of
\* the sender's verified session token.
C4_FromIsTokenName ==
    last.op = "message" =>
        \A s \in last.sent :
            s.payload.type \in AttributingTypes =>
                /\ Field(s.payload, "from") = Field(session[last.conn], "name")
                /\ Field(s.payload, "fromId") = Field(session[last.conn], "sub")

\* C4 amended: every sender-attributing envelope carries the sub of the sender's
\* verified session token as fromId, and as from the token's name, or "Guest" when
\* the token has no name; the from/fromId of the inbound frame are never used.
C4_FromIsVerifiedIdentity ==
    last.op = "message" =>
        \A s \in last.sent :
            s.payload.type \in AttributingTypes =>
                /\ Field(s.payload, "from") = OrElse(Field(session[last.conn], "name"), Str("Guest"))
                /\ Field(s.payload, "fromId") = Field(session[last.conn], "sub")

\* a frame that carries its own from/fromId was relayed to another member
C4_Witness ==
    /\ LastType \in AttributingTypes
    /\ "from" \in DOMAIN LastFields
    /\ "fromId" \in DOMAIN LastFields
    /\ \E m \in Others : SentTo(m) # {}

\* a key-exchange frame with a non-empty publicKey was handled last
LastIsKeyExchange ==
    LastType = Str("key-exchange") /\ isNonEmptyString(Field(LastFields, "publicKey"))

\* C6 as stated: every other member gets exactly one key-exchange envelope with the
\* inbound publicKey and curve and the sender's identity; the sender gets nothing.
C6_KeyExchangeIdentical ==
    LastIsKeyExchange =>
        /\ \A m \in Others :
              /\ Cardinality(SentTo(m)) = 1
              /\ \A s \in SentTo(m) :
                    /\ s.payload.type = Str("key-exchange")
                    /\ Field(s.payload, "publicKey") = Field(LastFields, "publicKey")
                    /\ Field(s.payload, "curve") = Field(LastFields, "curve")
                    /\ Field(s.payload, "from") = client[last.conn].name
                    /\ Field(s.payload, "fromId") = client[last.conn].sub
        /\ SentTo(last.conn) = {}

\* C6 amended: every other member whose socket is open gets exactly one key-exchange
\* envelope with the inbound publicKey, with the inbound curve when that is a
\* non-empty string and "secp256k1" otherwise, and with the sender's identity;
\* members whose socket is not open and the sender get nothing; the room's
\* encryption flag makes no difference.
C6_KeyExchangeRelayed ==
    LastIsKeyExchange =>
        /\ \A m \in Others :
              IF readyState[m] = OPEN
              THEN /\ Cardinality(SentTo(m)) = 1
                   /\ \A s \in SentTo(m) :
                         /\ s.payload.type = Str("key-exchange")
                         /\ Field(s.payload, "publicKey") = Field(LastFields, "publicKey")
                         /\ Field(s.payload, "curve") =
                               IF isNonEmptyString(Field(LastFields, "curve"))
                               THEN Field(LastFields, "curve")
                               ELSE Str("secp256k1")
                         /\ Field(s.payload, "from") = client[last.conn].name
                         /\ Field(s.payload, "fromId") = client[last.conn].sub
              ELSE SentTo(m) = {}
        /\ SentTo(last.conn) = {}

\* a key-exchange frame without a curve reached an open member of an encrypted room
C6_Witness ==
    /\ LastIsKeyExchange
    /\ "curve" \notin DOMAIN LastFields
    /\ LastRoomEncrypted
    /\ \E m \in Others : readyState[m] = OPEN /\ SentTo(m) # {}

\* C7: the envelope of an encrypted frame with non-empty ciphertext and iv carries
\* the inbound ciphertext, iv, tag and salt, and every optional field (tag, salt,
\* alg, recipientId) the inbound frame carried, to every other member.
C7_EncryptedPassthrough ==
    (/\ LastType = Str("encrypted")
     /\ isNonEmptyString(Field(LastFields, "ciphertext"))
     /\ isNonEmptyString(Field(LastFields, "iv")))
        => \A m \in Others : \A s \in SentTo(m) :
              /\ \A k \in {"ciphertext", "iv", "tag", "salt"} :
                    Field(s.payload, k) = Field(LastFields, k)
              /\ \A k \in {"tag", "salt", "alg", "recipientId"} :
                    k \in DOMAIN LastFields => Field(s.payload, k) = LastFields[k]

(***************************************************************************)
(* Properties of the room lifecycle                                        *)
(***************************************************************************)
\* the scheduled timeouts whose callback will look at room r
PendingFor(r) == {h \in DOMAIN timers : timers[h] = r}

MembersOf(rms, r) == IF r \in DOMAIN rms THEN rms[r].clients ELSE {}

\* C2: a registered room without members has exactly one pending deletion timer and
\* a registered room with members has none.
C2_TimerIffEmpty ==
    \A r \in DOMAIN rooms :
        IF rooms[r].clients = {}
        THEN Cardinality(PendingFor(r)) = 1
        ELSE PendingFor(r) = {}

\* C3: while a room record exists its encryptionRequired never changes.
C3_EncryptionImmutable ==
    [][\A r \in DOMAIN rooms \cap DOMAIN rooms' :
          rooms'[r].rec = rooms[r].rec
              => rooms'[r].encryptionRequired = rooms[r].encryptionRequired]_vars

\* C5: a heartbeat tick terminates every open socket that an earlier tick pinged
\* and that showed no activity since, so no open connection stays silent for more
\* than one full interval between two ticks.
C5_SilentSocketTerminated ==
    /\ [][now' # now =>
            \A c \in Conns :
                (readyState[c] = OPEN /\ isAlive[c] = Bool(FALSE))
                    => (readyState'[c] = CLOSING /\ c \in destroyed')]_vars
    /\ [](\A c \in Attached :
            readyState[c] = OPEN => now - lastActivity[c].v <= PING_INTERVAL)

\* the heartbeat has just destroyed the socket of an attached connection whose
\* ping went unanswered
C5_Witness ==
    /\ last.op = "heartbeat"
    /\ \E c \in Attached \cap destroyed :
          /\ isAlive[c] = Bool(FALSE)
          /\ now - lastActivity[c].v = 2 * PING_INTERVAL

\* the last callback sent to m a presence envelope that lists exactly `members`
PresenceTo(ev, m, members) ==
    \E s \in ev.sent :
        /\ s.to = m
        /\ s.payload.type = Str("presence")
        /\ DOMAIN s.payload.participants.v = members

\* C8 as stated: the callback that changes a room's membership sends, before any
\* other callback runs, a presence envelope with the new membership to every member.
C8_PresenceToEveryMember ==
    [][\A r \in DOMAIN rooms' :
          MembersOf(rooms, r) # rooms'[r].clients
              => \A m \in rooms'[r].clients : PresenceTo(last', m, rooms'[r].clients)]_vars

\* C8 amended: the callback that changes a room's membership sends, before any
\* other callback runs, a presence envelope with the new membership to every member
\* whose socket is open; a member whose socket is already closing gets none.
C8_PresenceToOpenMembers ==
    [][\A r \in DOMAIN rooms' :
          MembersOf(rooms, r) # rooms'[r].clients
              => \A m \in rooms'[r].clients :
                    IF readyState'[m] = OPEN
                    THEN PresenceTo(last', m, rooms'[r].clients)
                    ELSE \A s \in last'.sent : s.to # m]_vars

\* a join was announced to the member that was already there and to the joiner
C8_Witness ==
    /\ last.op = "connection"
    /\ last.roomId \in DOMAIN rooms
    /\ Cardinality(rooms[last.roomId].clients) = 2
    /\ \A m \in rooms[last.roomId].clients : PresenceTo(last, m, rooms[last.roomId].clients)

\* C9: a connection that joins an empty room whose deletion timer is pending
\* cancels the timer and is attached to the record that was there, with its
\* encryptionRequired unchanged; and the room of an attached connection is
\* registered and lists the connection.
C9_ReconnectKeepsRoom ==
    /\ [][\A r \in DOMAIN rooms : \A c \in Conns :
            (/\ rooms[r].deletionTimer \in DOMAIN timers
             /\ c \notin Attached
             /\ c \in Attached'
             /\ client'[c].roomId = r)
                => /\ r \in DOMAIN rooms'
                   /\ c \in rooms'[r].clients
                   /\ rooms'[r].rec = rooms[r].rec
                   /\ rooms'[r].encryptionRequired = rooms[r].encryptionRequired
                   /\ rooms'[r].deletionTimer = NoTimer
                   /\ \A h \in DOMAIN timers' : timers'[h] # r]_vars
    /\ [](\A c \in Attached :
            /\ client[c].roomId \in DOMAIN rooms
            /\ c \in rooms[client[c].roomId].clients)

\* a connection has just joined a room whose deletion timer was pending
C9_Witness ==
    /\ last.op = "connection"
    /\ last.msg = Str("cancelling-deletion-timer")
    /\ last.conn \in MembersOf(rooms, last.roomId)
    /\ PendingFor(last.roomId) = {}

\* C10: a room that has a member has no deletion timer, stored or scheduled,
\* and only a room without members is ever removed from the registry.
C10_NoDeletionWithMember ==
    /\ [](\A r \in DOMAIN rooms :
            rooms[r].clients # {} => (rooms[r].deletionTimer = NoTimer /\ PendingFor(r) = {}))
    /\ [][\A r \in DOMAIN rooms \ DOMAIN rooms' :
            /\ rooms[r].clients = {}
            /\ \A c \in Attached' : client'[c].roomId # r]_vars

\* the close of the old member ran right after the join of the new one: the room
\* keeps its new member and no timer was armed
C10_Witness ==
    /\ last.op = "close"
    /\ last.roomId \in DOMAIN rooms
    /\ rooms[last.roomId].clients # {}
    /\ rooms[last.roomId].deletionTimer = NoTimer
    /\ PendingFor(last.roomId) = {}

(***************************************************************************)
(* Sender scoping and identity of the relayed envelopes                    *)
(***************************************************************************)
\* the members of the sender's room
LastMembers == MembersOf(rooms, last.roomId)

\* the envelope of the chat frame handled last, as member m got it
ChatEnvelopeTo(m) ==
    /\ Cardinality(SentTo(m)) = 1
    /\ \A s \in SentTo(m) :
          /\ s.payload.type = Str("chat")
          /\ Field(s.payload, "text") = Field(LastFields, "text")
          /\ Field(s.payload, "from") = client[last.conn].name
          /\ Field(s.payload, "fromId") = client[last.conn].sub

\* C11 as stated: in a room that does not require encryption a chat frame reaches
\* every member, the sender included, all with the same envelope: the text of the
\* frame and the verified name and sub of the sender.
C11_ChatToEveryMember ==
    (LastType = Str("chat") /\ ~LastRoomEncrypted) =>
        /\ \A m \in LastMembers : ChatEnvelopeTo(m)
        /\ Cardinality({s.payload : s \in last.sent}) = 1

\* C11 amended: in a room that does not require encryption a chat frame reaches
\* every member whose socket is open, the sender included, all with the same
\* envelope; a member whose socket is no longer open gets nothing.
C11_ChatToOpenMembers ==
    (LastType = Str("chat") /\ ~LastRoomEncrypted) =>
        /\ \A m \in LastMembers :
              IF readyState[m] = OPEN THEN ChatEnvelopeTo(m) ELSE SentTo(m) = {}
        /\ Cardinality({s.payload : s \in last.sent}) = 1

\* a chat frame was echoed to its sender and relayed to another open member
C11_Witness ==
    /\ LastType = Str("chat")
    /\ ~LastRoomEncrypted
    /\ SentTo(last.conn) # {}
    /\ \E m \in Others : readyState[m] = OPEN /\ SentTo(m) # {}

\* the relayable types other than chat
ScopedTypes ==
    {Str("state"), Str("typing"), Str("system"), Str("episode-changed"), Str("key-exchange"),
     Str("encrypted"), Str("sync-request"), Str("sync-state")}

\* C12: the envelope of a relayable frame other than chat goes to the other
\* members only; the connection that sent the frame receives nothing.
C12_SenderExcluded ==
    LastType \in ScopedTypes => SentTo(last.conn) = {}

\* the identity fields a client may add to a frame
IdentityFields == {"from", "fromId", "name", "avatar", "picture"}

\* the frame without its client-supplied identity fields
StripIdentity(msg) ==
    IF msg.t = "object"
    THEN Obj([k \in DOMAIN msg.v \ IdentityFields |-> msg.v[k]])
    ELSE msg

\* C13: the envelopes the router sends for a frame are those it sends for the same
\* frame without its client-supplied identity fields (from, fromId, name, avatar,
\* picture): no outbound field depends on them.
C13_IdentityFieldsIgnored ==
    (last.op = "message" /\ LastType \in ScopedTypes \cup {Str("chat")}) =>
        last.sent = handleMessage(rooms, readyState, client, now, last.roomId, last.conn,
                                  StripIdentity(last.msg))

\* the control-metadata types, with the field the router insists on
LastIsControlMetadata ==
    \/ LastType \in {Str("system"), Str("sync-request"), Str("sync-state")}
    \/ LastType = Str("episode-changed") /\ isNonEmptyString(Field(LastFields, "url"))

\* C14: in a room that requires encryption a system, episode-changed, sync-request
\* or sync-state frame is relayed as it would be in a room that does not: every
\* other member whose socket is open gets one plaintext envelope of that type.
C14_ControlMetadataRelayed ==
    (LastIsControlMetadata /\ LastRoomEncrypted) =>
        /\ \A m \in Others :
              readyState[m] = OPEN =>
                  /\ Cardinality(SentTo(m)) = 1
                  /\ \A s \in SentTo(m) : s.payload.type = LastType
        /\ last.sent =
              handleMessage([rooms EXCEPT ![last.roomId].encryptionRequired = FALSE],
                            readyState, client, now, last.roomId, last.conn, last.msg)

\* a sync-state frame reached an open member of a room that requires encryption
C14_Witness ==
    /\ LastType = Str("sync-state")
    /\ LastRoomEncrypted
    /\ \E m \in Others : readyState[m] = OPEN /\ SentTo(m) # {}

(***************************************************************************)
(* Rejected connections and liveness frames                                *)
(***************************************************************************)
\* no token, or a token that fails verification
BadToken(token) == token.t # "jwt" \/ ~token.signed

\* C15: a connection request without roomId, without token or with a token that
\* fails verification is closed without a payload and leaves the hub as it was:
\* no room is created or changed, no deletion timer is cancelled, the connection
\* joins no room and nothing is sent.
C15_RejectedConnectionInert ==
    [][\A c \in Conns :
          (/\ readyState[c] = CLOSED
           /\ readyState'[c] # CLOSED
           /\ (last'.roomId = NoRoom \/ BadToken(last'.token)))
              => /\ readyState'[c] = CLOSING
                 /\ last'.sent = {}
                 /\ rooms' = rooms
                 /\ timers' = timers
                 /\ client'[c] = Null
                 /\ session'[c] = Null
                 /\ \A r \in DOMAIN rooms' : c \notin rooms'[r].clients]_vars

\* a request with a bad token for a room whose deletion timer is pending was closed
C15_Witness ==
    /\ last.op = "connection"
    /\ BadToken(last.token)
    /\ last.roomId \in DOMAIN rooms
    /\ PendingFor(last.roomId) # {}
    /\ readyState[last.conn] = CLOSING
    /\ client[last.conn] = Null

\* C19: a JSON ping is answered with one pong to the connection that sent it, a
\* JSON pong with nothing; neither reaches another member, and neither changes the
\* rooms, their members, their metadata or the deletion timers.
C19_PingPongLocal ==
    [][(/\ last'.op = "message"
        /\ last'.msg.t = "object"
        /\ Field(last'.msg.v, "type") \in {Str("ping"), Str("pong")})
           => /\ last'.sent =
                    IF Field(last'.msg.v, "type") = Str("ping")
                    THEN {[to |-> last'.conn, payload |-> [type |-> Str("pong"), ts |-> Num(now)]]}
                    ELSE {}
              /\ rooms' = rooms
              /\ timers' = timers
              /\ client' = client
              /\ readyState' = readyState]_vars

\* a ping was answered while another member of the room was open
C19_Witness ==
    /\ LastType = Str("ping")
    /\ SentTo(last.conn) # {}
    /\ \E m \in Others : readyState[m] = OPEN /\ SentTo(m) = {}

(***************************************************************************)
(* Properties of the control plane                                         *)
(***************************************************************************)
ControlOps == {"create-room", "join", "preview"}

LookupOps == {"join", "preview"}

\* C16: create room, join preflight and preview answer 401 to a request without a
\* token or with a token that fails verification, whether the room exists or not,
\* and leave the registry, the timers and the mirror as they were.
C16_UnauthenticatedRejected ==
    [][(last'.op \in ControlOps /\ BadToken(last'.token))
          => /\ last'.msg = Num(401)
             /\ rooms' = rooms
             /\ timers' = timers
             /\ mirror' = mirror
             /\ inflight' = inflight
             /\ client' = client]_vars

\* a preflight with a bad token for a registered room was answered 401
C16_Witness ==
    /\ last.op = "join"
    /\ BadToken(last.token)
    /\ last.msg = Num(401)
    /\ last.roomId \in DOMAIN rooms

\* join preflight or preview has just answered a request with a valid token
LookupAnswered == last.op \in LookupOps /\ ~BadToken(last.token)

\* C17 as stated: preflight and preview answer not-found exactly when the room id
\* is neither in the registry nor in the mirror, and the room's metadata otherwise.
C17_NotFoundIffUnknown ==
    LookupAnswered =>
        /\ (last.msg = Num(404))
              <=> (last.roomId \notin DOMAIN rooms /\ last.roomId \notin DOMAIN mirror)
        /\ last.msg # Num(404) => (last.msg.t = "object" /\ last.msg.v.roomId = Num(last.roomId))

\* C17 amended: preflight and preview answer not-found exactly when the room id is
\* not in the registry and the lookup in the mirror gave nothing: the mirror is not
\* connected, the lookup failed or the mirror holds no hash for the id.  Otherwise
\* they answer the metadata, the registry's encryptionRequired when the room is
\* registered.  An id that is in neither is always answered not-found.
C17_NotFoundIffNothingFound ==
    LookupAnswered =>
        /\ (last.msg = Num(404))
              <=> (last.roomId \notin DOMAIN rooms /\ last.roomData = Null)
        /\ last.roomData # Null =>
              (last.roomId \in DOMAIN mirror /\ last.roomData = getRoom(mirror, last.roomId))
        /\ (last.roomId \notin DOMAIN rooms /\ last.roomId \notin DOMAIN mirror)
              => last.msg = Num(404)
        /\ last.msg # Num(404) =>
              /\ last.msg.t = "object"
              /\ last.msg.v.roomId = Num(last.roomId)
              /\ (last.op = "join" /\ last.roomId \in DOMAIN rooms)
                    => last.msg.v.encryptionRequired = Bool(rooms[last.roomId].encryptionRequired)

\* a preflight for a room that is no longer registered was answered from the mirror
C17_Witness ==
    /\ last.op = "join"
    /\ ~BadToken(last.token)
    /\ last.roomId \notin DOMAIN rooms
    /\ last.roomData # Null
    /\ last.msg # Num(404)

\* C18: join preflight and preview, from the request to the answer, leave the
\* registry as it was: no room is created, no member added, no metadata changed,
\* no deletion timer cancelled or armed; the mirror is not written either.
C18_LookupsReadOnly ==
    [][(\/ last'.op \in LookupOps
        \/ last'.op = "request" /\ last'.msg \in {Str("join"), Str("preview")})
          => /\ rooms' = rooms
             /\ timers' = timers
             /\ mirror' = mirror
             /\ client' = client
             /\ readyState' = readyState]_vars

\* a preflight was answered for an empty room whose deletion timer is still pending
C18_Witness ==
    /\ last.op = "join"
    /\ last.msg.t = "object"
    /\ last.roomId \in DOMAIN rooms
    /\ rooms[last.roomId].clients = {}
    /\ rooms[last.roomId].deletionTimer \in DOMAIN timers

\* the options ensureRoom is given: none, those POST /rooms builds, and some that
\* give only one field, a falsy value or a value that is not a boolean
EnsureOpts ==
    {NoOpts}
      \cup {RoomOpts(body) : body \in Bodies \cup VideoBodies}
      \cup { [videoUrl |-> Str("")],
             [initialTime |-> Num(0)],
             [encryptionRequired |-> Str("yes")],
             [titleId |-> Str("81234567"), initialTime |-> Num(42)] }

\* C20: ensureRoom(id, opts) called again with the same opts leaves the record as
\* the first call left it, whether or not a deletion timer was armed in between;
\* all the second call does is cancel that timer.
C20_EnsureIdempotent ==
    \A id \in RoomIds : \A opts \in EnsureOpts :
        LET once == ensureRoom(rooms, timers, id, opts)
            handle == FreshTimer(once.rooms, once.timers)
            armed == [rooms |-> [once.rooms EXCEPT ![id].deletionTimer = handle],
                      timers |-> setTimeout(once.timers, handle, id)]
        IN  /\ ensureRoom(once.rooms, once.timers, id, opts) = once
            /\ ensureRoom(armed.rooms, armed.timers, id, opts) = once

\* POST /rooms ran for the id of a room that has a member, with the options the room
\* already had
C20_Witness ==
    /\ last.op = "create-room"
    /\ last.msg.t = "object"
    /\ last.roomId \in DOMAIN rooms
    /\ rooms[last.roomId].clients # {}
    /\ rooms[last.roomId].videoUrl = Str(VideoUrl)
    /\ ensureRoom(rooms, timers, last.roomId, last.msg.v) = [rooms |-> rooms, timers |-> timers]

(***************************************************************************)
(* Room ids at the control plane                                           *)
(***************************************************************************)
\* C21: join preflight and preview never answer room metadata for an id that is not
\* 3 to 64 characters of [A-Za-z0-9_-], even when a room with that id is registered
\* because a connection named it.
C21_MalformedIdRejected ==
    (last.op \in LookupOps /\ last.roomId = OddRoomId) => last.msg.t # "object"

(***************************************************************************)
(* Room creation                                                           *)
(***************************************************************************)
\* what the body of a create request asks for: its flag when it is a boolean or one of
\* the strings "true" and "false", the process-wide default when it carries none
RequestedEncryption(body) ==
    LET given == Field(body, "encryptionRequired")
    IN  IF given \in {Bool(TRUE), Str("true")} THEN TRUE
        ELSE IF given \in {Bool(FALSE), Str("false")} THEN FALSE
        ELSE requireEncryption

CreateAnswered == last.op = "create-room" /\ last.msg.t = "object"

\* C22: when create room answers, the registry record of the returned id carries the
\* encryption flag the body asked for (a boolean, or "true"/"false"), or the
\* process-wide default when the body gives none, and the response carries the
\* flag of that record.
C22_CreateStoresRequestedFlag ==
    CreateAnswered =>
        /\ last.roomId \in DOMAIN rooms
        /\ rooms[last.roomId].encryptionRequired = RequestedEncryption(last.body)
        /\ Field(last.msg.v, "encryptionRequired") = Bool(rooms[last.roomId].encryptionRequired)

C22_Witness ==
    /\ CreateAnswered
    /\ last.body = [encryptionRequired |-> Str("true")]
    /\ ~requireEncryption
    /\ rooms[last.roomId].encryptionRequired

(***************************************************************************)
(* Playback state across a reconnect                                       *)
(***************************************************************************)
\* the connections attached to room r whose socket is open
OpenIn(r) == {c \in Attached : client[c].roomId = r /\ readyState[c] = OPEN}

\* member m got the state envelope of the frame handled last, and nothing else
StateEnvelopeTo(m) ==
    SentTo(m) = {[to |-> m,
                  payload |-> Stringify([type |-> Str("state"),
                                         payload |-> Field(LastFields, "payload")])]}

LastIsOpenState ==
    /\ LastType = Str("state")
    /\ last.roomId \in DOMAIN rooms
    /\ ~rooms[last.roomId].encryptionRequired

\* C23: in a room that does not require encryption a state frame reaches every other
\* connection attached to the room with an open socket, whatever came before; a
\* member that closed its connection and connected again to the same room gets the
\* next state frame of another member on its new connection.
C23_StateReachesAttached ==
    LastIsOpenState => \A m \in OpenIn(last.roomId) \ {last.conn} : StateEnvelopeTo(m)

\* a state frame reached the new connection of a member the harness saw close
C23_Witness ==
    /\ LastIsOpenState
    /\ \E m \in OpenIn(last.roomId) \ {last.conn} :
          /\ <<client[m].sub, last.roomId>> \in journal.closed
          /\ client[m].sub # client[last.conn].sub
          /\ StateEnvelopeTo(m)

(***************************************************************************)
(* Rooms without members                                                   *)
(***************************************************************************)
\* a step that ensures room r: an accepted connection to it or a create request for it
EnsureStep(r) == last'.op \in {"connection", "create-room"} /\ last'.roomId = r

\* C24: with timers firing, no room stays registered without members forever once
\* connections and create requests for its id have stopped, whether the room was
\* created explicitly or by its first connection.
C24_EmptyRoomsRemoved ==
    \A r \in OneRoom :
        <>[][~EnsureStep(r)]_vars => []<>(r \notin DOMAIN rooms \/ rooms[r].clients # {})

(***************************************************************************)
(* Termination of a connection                                             *)
(***************************************************************************)
\* the 'close' callback of attached connection c runs in this step
Closes(c) == c \in Attached /\ readyState[c] = CLOSING /\ readyState'[c] = CLOSED

\* the room c leaves is left with a pending deletion timer when it is left empty
TimerArmedIfEmpty(r) ==
    rooms'[r].clients = {} =>
        /\ rooms'[r].deletionTimer \in DOMAIN timers'
        /\ timers'[rooms'[r].deletionTimer] = r

\* the connections a presence envelope of the last callback lists
Listed == UNION {DOMAIN s.payload.participants.v :
                   s \in {e \in last.sent : e.payload.type = Str("presence")}}

\* C25 as stated: when a connection terminates it is removed from its room, every
\* remaining member gets a presence envelope without it, a room left empty gets a
\* deletion timer, and no presence envelope lists a connection that has terminated.
C25_TerminationAnnounced ==
    /\ [][\A c \in Conns :
            Closes(c) =>
                LET r == client[c].roomId
                IN  /\ r \in DOMAIN rooms'
                    /\ c \notin rooms'[r].clients
                    /\ \A m \in rooms'[r].clients : PresenceTo(last', m, rooms'[r].clients)
                    /\ TimerArmedIfEmpty(r)]_vars
    /\ [](\A m \in Listed : readyState[m] = OPEN)

\* C25 amended: when the 'close' callback of a connection runs it is removed from its
\* room, every remaining member whose socket is open gets a presence envelope that
\* lists the remaining members, a member whose socket is closing gets none, and a
\* room left empty gets a deletion timer; a presence envelope never lists a
\* connection whose 'close' callback has run, but it does list a member whose
\* socket is closing and whose 'close' callback has not run yet.
C25_CloseAnnounced ==
    /\ [][\A c \in Conns :
            Closes(c) =>
                LET r == client[c].roomId
                IN  /\ r \in DOMAIN rooms'
                    /\ c \notin rooms'[r].clients
                    /\ \A m \in rooms'[r].clients :
                          IF readyState'[m] = OPEN
                          THEN PresenceTo(last', m, rooms'[r].clients)
                          ELSE \A s \in last'.sent : s.to # m
                    /\ \A s \in last'.sent :
                          /\ s.payload.type = Str("presence")
                          /\ DOMAIN s.payload.participants.v = rooms'[r].clients
                    /\ TimerArmedIfEmpty(r)]_vars
    /\ [](\A m \in Listed : readyState[m] # CLOSED /\ m \in Attached)

\* the 'close' callback of a member ran and the member that stayed was told
C25_Witness ==
    /\ last.op = "close"
    /\ last.roomId \in DOMAIN rooms
    /\ last.conn \notin rooms[last.roomId].clients
    /\ \E m \in rooms[last.roomId].clients :
          /\ readyState[m] = OPEN
          /\ PresenceTo(last, m, rooms[last.roomId].clients)

(***************************************************************************)
(* The deletion timer                                                      *)
(***************************************************************************)
\* the callback of a deletion timer armed for room r runs in this step
TimerFires(r) == timers' # timers /\ last'.op = "timer" /\ last'.roomId = r

\* C26: a room never has more than one pending deletion timer; the callback of a
\* timer removes its room exactly when the room is still registered and has no
\* member, and changes nothing in the registry otherwise, so a room nobody joined
\* again is gone when its timer has fired and a room with a member never is removed.
C26_TimerRemovesOnlyEmpty ==
    /\ [](\A r \in RoomIds : Cardinality(PendingFor(r)) <= 1)
    /\ [][\A r \in RoomIds :
            TimerFires(r) =>
                IF r \in DOMAIN rooms /\ rooms[r].clients = {}
                THEN rooms' = [q \in DOMAIN rooms \ {r} |-> rooms[q]]
                ELSE rooms' = rooms]_vars

\* the timer of a room that stayed empty fired and the room is gone
C26_Witness ==
    /\ last.op = "timer"
    /\ last.roomId \notin DOMAIN rooms
    /\ PendingFor(last.roomId) = {}

(***************************************************************************)
(* Activity and the heartbeat                                              *)
(***************************************************************************)
\* C27: whatever a connection sends (a protocol pong, a JSON pong or ping, any other
\* frame, one that does not decode or that the policy drops) marks it alive and
\* refreshes its last activity, and a tick of the heartbeat does not terminate an
\* open connection that is marked alive: one that answers every ping before the
\* next tick is never terminated by the heartbeat.
C27_ActivityKeepsAlive ==
    /\ [](last.op \in {"message", "pong"} =>
            /\ isAlive[last.conn] = Bool(TRUE)
            /\ lastActivity[last.conn] = Num(now))
    /\ [][now' # now =>
            \A c \in Attached :
                (readyState[c] = OPEN /\ isAlive[c] = Bool(TRUE))
                    => (readyState'[c] = OPEN /\ c \notin destroyed')]_vars

\* the second tick pinged again a connection whose last activity fell between the
\* two ticks
C27_Witness ==
    /\ last.op = "heartbeat"
    /\ now = StartTime + 2 * PING_INTERVAL
    /\ \E c \in Attached :
          /\ readyState[c] = OPEN
          /\ lastActivity[c] = Num(now - PING_INTERVAL)
          /\ \E s \in last.sent : s.to = c /\ s.payload.type = Str("ping")

(***************************************************************************)
(* Dropped frames                                                          *)
(***************************************************************************)
\* the field is absent, not a string, or a string of nothing but blanks
Blank(x) == x.t # "string" \/ x.v = "" \/ x.v = " "

RoutedTypes == ScopedTypes \cup {Str("chat"), Str("ping"), Str("pong")}

\* the frame handled last is one the policy or the router refuses
LastIsRefused ==
    /\ last.op = "message"
    /\ \/ last.msg.t # "object"
       \/ LastType \notin RoutedTypes
       \/ LastType \in PlaintextTypes /\ LastRoomEncrypted
       \/ LastType = Str("encrypted")
             /\ (Blank(Field(LastFields, "ciphertext")) \/ Blank(Field(LastFields, "iv")))
       \/ LastType = Str("key-exchange") /\ Blank(Field(LastFields, "publicKey"))
       \/ LastType = Str("episode-changed") /\ Blank(Field(LastFields, "url"))

\* C28: a frame that violates the policy or is malformed (plaintext state, chat or
\* typing in a room that requires encryption, encrypted without ciphertext or iv,
\* key-exchange without publicKey, episode-changed without url, an unknown or
\* missing type, JSON that does not decode) is dropped silently: nothing is sent to
\* anybody, the sender stays attached with its socket open, and the registry and
\* its timers are as they were.
C28_RefusedFrameDropped ==
    /\ [](LastIsRefused =>
            /\ last.sent = {}
            /\ last.conn \in Attached
            /\ readyState[last.conn] = OPEN
            /\ last.conn \in MembersOf(rooms, last.roomId))
    /\ [][last'.op = "message" => (rooms' = rooms /\ timers' = timers /\ client' = client)]_vars

\* a key-exchange frame with a blank publicKey was dropped although another member
\* of the room had its socket open
C28_Witness ==
    /\ LastIsRefused
    /\ LastType = Str("key-exchange")
    /\ last.sent = {}
    /\ \E m \in Others : readyState[m] = OPEN

(***************************************************************************)
(* Advertised metadata and the mirror                                      *)
(***************************************************************************)
\* the preflight answered with metadata, and the mirror it read had the position of
\* the sync-state frame
JoinSawSync ==
    /\ last.op = "join"
    /\ last.msg.t = "object"
    /\ last.roomData # Null
    /\ last.roomData.videoUrl = Field(SyncState.v, "url")
    /\ last.roomData.videoTime = Field(SyncState.v, "time")

\* C29: once a sync-state frame with url u and time t was relayed in a room and
\* written to the mirror, a join preflight for the room answers video_url u and
\* initial_time t.
C29_SyncUpdatesAdvertised ==
    JoinSawSync =>
        /\ last.msg.v.videoUrl = Field(SyncState.v, "url")
        /\ last.msg.v.initialTime = Field(SyncState.v, "time")

\* C30: a join preflight that is answered from the mirror alone, the id not being in
\* the registry, returns the encryption_required, video_url and video_time some
\* create request gave.
C30_MirrorKeepsCreation ==
    (/\ last.op = "join"
     /\ last.msg.t = "object"
     /\ last.roomId \notin DOMAIN rooms
     /\ last.roomData # Null)
        => \E body \in ControlBodies :
              /\ last.msg.v.encryptionRequired = RoomOpts(body).encryptionRequired
              /\ last.msg.v.videoUrl = RoomOpts(body).videoUrl
              /\ last.msg.v.initialTime = RoomOpts(body).initialTime

(***************************************************************************)
(* Failure of the mirror                                                   *)
(***************************************************************************)
\* member m got the sync-state envelope of the frame handled last, and nothing else
SyncEnvelopeTo(m) ==
    /\ Cardinality(SentTo(m)) = 1
    /\ \A s \in SentTo(m) :
          /\ s.payload.type = Str("sync-state")
          /\ Field(s.payload, "time") = Field(LastFields, "time")
          /\ Field(s.payload, "url") = Field(LastFields, "url")
          /\ Field(s.payload, "fromId") = client[last.conn].sub

\* the await of redis.createRoom ends in this step
CreateRoomSettles ==
    /\ inflight # <<>>
    /\ Head(inflight).call = "createRoom"
    /\ inflight' = Tail(inflight)

\* C31: the mirror never changes what clients observe.  A sync-state frame reaches
\* every other open member of the room whether the mirror is connected or not and
\* whatever becomes of the write; and when the await of the mirror in create room
\* ends, with the write done or failed, the room is registered and the request is
\* answered with its metadata.
C31_MirrorFailureUnobserved ==
    /\ [](LastType = Str("sync-state") =>
            \A m \in OpenIn(last.roomId) \ {last.conn} : SyncEnvelopeTo(m))
    /\ [][CreateRoomSettles =>
            /\ last'.op = "create-room"
            /\ last'.msg = Obj(Head(inflight).req.opts)
            /\ last'.roomId \in DOMAIN rooms'
            /\ rooms'[last'.roomId].encryptionRequired = Head(inflight).req.opts.encryptionRequired.v]_vars

\* create room answered with the room registered although the write to the
\* connected mirror failed and the mirror holds nothing for the id
C31_Witness ==
    /\ CreateAnswered
    /\ isConnected
    /\ last.roomId \in DOMAIN rooms
    /\ last.roomId \notin DOMAIN mirror

(***************************************************************************)
(* Life of a connection                                                    *)
(***************************************************************************)
\* the rooms that list connection c
RoomsOf(rms, c) == {r \in DOMAIN rms : c \in rms[r].clients}

C33_FanOutStaysInRoom ==
    last.op \in {"message", "connection", "close"} =>
        \A s \in last.sent :
            /\ last.roomId \in DOMAIN rooms
            /\ s.to \in rooms[last.roomId].clients
            /\ s.to \in Attached
            /\ client[s.to].roomId = last.roomId
            /\ RoomsOf(rooms, s.to) = {last.roomId}

\* a chat frame was relayed in its room while a connection in another room had its
\* socket open and got nothing
C33_Witness ==
    /\ LastType = Str("chat")
    /\ last.sent # {}
    /\ \E m \in Attached :
          /\ client[m].roomId # last.roomId
          /\ readyState[m] = OPEN
          /\ SentTo(m) = {}

(***************************************************************************)
(* Content of the presence envelope                                        *)
(***************************************************************************)
\* the presence envelopes of the last callback
LastPresence == {s \in last.sent : s.payload.type = Str("presence")}

\* the envelope has one entry for every member of room r, with the verified identity
\* of that connection, the flag of the room, and no sender
PresenceDescribes(s, r) ==
    /\ DOMAIN s.payload.participants.v = rooms[r].clients
    /\ \A c \in rooms[r].clients :
          /\ s.payload.participants.v[c].id = client[c].sub
          /\ s.payload.participants.v[c].name = client[c].name
    /\ s.payload.encryptionRequired = Bool(rooms[r].encryptionRequired)
    /\ "from" \notin DOMAIN s.payload
    /\ "fromId" \notin DOMAIN s.payload

\* C34 as stated: every presence envelope lists exactly the members of its room, one
\* entry per connection, carries the room's encryption flag and no from/fromId, and
\* is sent to every member of the room.
C34_PresenceToAllMembers ==
    LastPresence # {} =>
        /\ last.roomId \in DOMAIN rooms
        /\ \A s \in LastPresence : PresenceDescribes(s, last.roomId)
        /\ \A m \in rooms[last.roomId].clients : Cardinality(SentTo(m)) = 1

\* C34 amended: every presence envelope lists exactly the members of its room, one
\* entry per connection, carries the room's encryption flag and no from/fromId, and
\* is sent to every member whose socket is open; a member whose socket is closing is
\* listed but gets no envelope.
C34_PresenceToOpenMembers ==
    LastPresence # {} =>
        /\ last.roomId \in DOMAIN rooms
        /\ \A s \in LastPresence : PresenceDescribes(s, last.roomId)
        /\ \A m \in rooms[last.roomId].clients :
              IF readyState[m] = OPEN THEN Cardinality(SentTo(m)) = 1 ELSE SentTo(m) = {}

\* a user joined with a second connection and the presence envelope both got lists
\* the user twice
C34_Witness ==
    /\ last.op = "connection"
    /\ last.roomId \in DOMAIN rooms
    /\ Cardinality(rooms[last.roomId].clients) = 2
    /\ \A m, o \in rooms[last.roomId].clients : client[m].sub = client[o].sub
    /\ \A m \in rooms[last.roomId].clients :
          \E s \in SentTo(m) : Cardinality(DOMAIN s.payload.participants.v) = 2

(***************************************************************************)
(* The hub as a blind relay                                                *)
(***************************************************************************)
BlindTypes ==
    {Str("encrypted"), Str("key-exchange"), Str("chat"), Str("typing"), Str("state")}

\* the callback of this step handled a frame of one of the blind types
HandlesBlind ==
    /\ last'.op = "message"
    /\ last'.msg.t = "object"
    /\ Field(last'.msg.v, "type") \in BlindTypes

\* C35: handling an encrypted, key-exchange, chat, typing or state frame leaves every
\* room record as it was (members, encryption flag, video url, title id, initial
\* time, deletion timer), and neither writes to the mirror nor hands it a command.
C35_BlindRelay ==
    [][HandlesBlind =>
          /\ rooms' = rooms
          /\ timers' = timers
          /\ mirror' = mirror
          /\ inflight' = inflight]_vars

\* an encrypted frame was relayed to another member while the mirror was connected
\* and nothing is on its way to the mirror
C35_Witness ==
    /\ LastType = Str("encrypted")
    /\ isConnected
    /\ inflight = <<>>
    /\ \E m \in Others : SentTo(m) # {}

(***************************************************************************)
(* What the preflight reports and what the router enforces                 *)
(***************************************************************************)
\* the connection handler accepts a connection to the room of the preflight that
\* was answered last
ConnectsAfterJoin ==
    /\ last.op = "join"
    /\ last.msg.t = "object"
    /\ last'.op = "connection"
    /\ last'.roomId = last.roomId
    /\ last'.conn \in Attached'

\* C36: the encryption_required a join preflight reports for a room id is what the
\* router enforces for a connection that attaches to that id right afterwards, also
\* when the room was known to the mirror only and the connection makes the record.
C36_ReportedIsEnforced ==
    [][ConnectsAfterJoin =>
          Bool(isEncryptionRequired(rooms', last.roomId)) = last.msg.v.encryptionRequired]_vars

(***************************************************************************)
(* The activity timeout                                                    *)
(***************************************************************************)
\* now - (socket.lastActivity || 0) as the tick that moves the clock to t sees it
SinceActivity(c, t) == t - (IF lastActivity[c] = Undef THEN 0 ELSE lastActivity[c].v)

\* C37: at a tick of the heartbeat an attached connection whose socket is still open
\* is at most two ping intervals past its last activity, so the activity timeout
\* never applies to it; the sockets the timeout applies to are those that were
\* never attached and have no last activity.
C37_TimeoutOnlyUnattached ==
    [][now' # now =>
          \A c \in wssClients :
              /\ (c \in Attached /\ readyState[c] = OPEN)
                    => SinceActivity(c, now') <= 2 * PING_INTERVAL
              /\ SinceActivity(c, now') > ACTIVITY_TIMEOUT
                    => (c \notin Attached /\ lastActivity[c] = Undef)]_vars

\* one tick terminated a socket that was never attached, by the activity timeout,
\* and an attached connection that was two intervals past its last activity, by the
\* unanswered ping
C37_Witness ==
    /\ last.op = "heartbeat"
    /\ \E c \in destroyed : c \notin Attached /\ lastActivity[c] = Undef
    /\ \E c \in destroyed \cap Attached :
          /\ now - lastActivity[c].v = 2 * PING_INTERVAL
          /\ now - lastActivity[c].v <= ACTIVITY_TIMEOUT

(***************************************************************************)
(* Properties of the extension's background worker                         *)
(***************************************************************************)
\* the worker's socket has closed, or failed before it opened, while a room is
\* selected and a token is held, and the worker has not given the room up
SocketLost ==
    /\ ws # NoSocket
    /\ sockets[ws].readyState = CLOSED
    /\ currentRoom # NoRoom
    /\ extSession
    /\ connectionStatus \notin {"auth-required", "disconnected"}

\* the retry timer is armed or attemptReconnect is running
ReconnectUnderWay ==
    retryTimer \/ \E i \in DOMAIN suspended : suspended[i].fn = "attemptReconnect"

\* C38: while a room is selected and a token is held, a socket that closed, or
\* failed before it opened, is followed by a reconnect attempt: the retry timer
\* is armed and attemptReconnect runs; the worker does not stay "connecting"
\* with a dead socket and no retry timer.
C38_ReconnectAttempted == SocketLost ~> (ReconnectUnderWay \/ ~SocketLost)

\* C39: whenever the worker creates a WebSocket, a room is selected and the roomId
\* in the socket's URL is currentRoom; no socket is created after leave-room has
\* cleared currentRoom until the next join, however a suspended connectSocket
\* interleaves with join-room and leave-room.
C39_SocketForCurrentRoom ==
    [][\A s \in Sockets :
          (sockets[s] = Null /\ sockets'[s] # Null)
              => (currentRoom # NoRoom /\ sockets'[s].roomId = Str(currentRoom))]_vars

\* the chat texts among a sequence of queue entries
ChatsIn(entries) == {entries[i].text : i \in {j \in DOMAIN entries : entries[j].type = "chat"}}

\* C40: a flush loses no chat: once flushMessageQueue and all its deferred sends
\* have run, every chat the flush took from the queue has been written to the
\* socket or is in the queue again, unless the queue is at MAX_QUEUE_SIZE; so also
\* when several chats are re-queued because the room is encrypted and no peer key
\* is held.
C40_FlushKeepsChats ==
    (~FlushInProgress(Worker) /\ Len(messageQueue) < MAX_QUEUE_SIZE)
        => ChatsIn(toSend) \subseteq (written \cup ChatsIn(messageQueue))

====
